---- MODULE Spec2Model ----
(***************************************************************************)
(* rimind_backend. Wallet-signature authentication: challenge issuance,    *)
(* the signable message codec, signature verification, the login handler   *)
(* (UserService.verifyAndAuthenticate and POST /login) and the User store. *)
(*                                                                         *)
(* Text is modelled as a sequence of one-character strings, so that        *)
(* splitting, case conversion and the lexicographic comparison of          *)
(* timestamps are computed as the JavaScript code computes them.           *)
(* The clock ticks once every five minutes.                                *)
(*                                                                         *)
(* Session routes: the token POST /login sets, its verification by the     *)
(* services' derive and isLoggedIn macro, GET /me and the routes of the    *)
(* app built by setupApp.                                                  *)
(*                                                                         *)
(* Chat: the Conversation and Message stores, ChatService, the routes of   *)
(* chatController and its streaming POST /conversation/:id/messages.       *)
(***************************************************************************)
EXTENDS Integers, Sequences, FiniteSets, TLC

\* ------------------------------------------------------------------ bounds

\* The clock runs from 0 to MaxTime ticks.
MaxTime == 2
\* At most this many challenges are issued.
MaxChallenges == 1
\* Login requests that may be in flight at once under SpecRace.
MaxConcurrent == 2

\* Challenges issued under SpecApp.
MaxIssued == 2
\* Rows in the Conversation and Message tables when the last call or request
\* that inserts is taken.
MaxRows == 4

\* Chunks the model streams in answer to one message.
MaxChunks == 2

\* Characters in the keys and values of a mapping given to buildMessage.
MaxFieldChars == 4

\* Pieces a text given to parseMessage is made of.
MaxPieces == 5

\* Commands sent to the simulated robots, over all of them.
MaxCommands == 2

\* Date.now() + 1000 * 60 * 5: a challenge lives five minutes, one tick of the
\* model's clock.
ChallengeTtl == 1

\* jwt({exp: "3d"}): a session token is valid for three days, 864 ticks.
SessionTtl == 864

\* ------------------------------------------------------------------- text

\* U+017F, LATIN SMALL LETTER LONG S, a lower-case letter outside ASCII; "$"
\* stands for it, the module being written in ASCII.
LongS == "$"

\* The characters the model uses, in the order of their UTF-16 code units.
Alphabet ==
    << "\n", " ", "0", "1", "2", "3", "4", "5", "6", "7", "8", "9", ":",
       "A", "B", "C", "D", "E", "I", "K", "N", "O", "P", "R", "S", "T", "X",
       "a", "b", "c", "d", "e", "i", "k", "n", "o", "p", "r", "s", "t", "x",
       LongS >>

UpperChars == << "A", "B", "C", "D", "E", "I", "K", "N", "O", "P", "R", "S", "T", "X" >>
LowerChars == << "a", "b", "c", "d", "e", "i", "k", "n", "o", "p", "r", "s", "t", "x" >>

CharCode(c) == CHOOSE i \in 1..Len(Alphabet) : Alphabet[i] = c

\* String.prototype.toLowerCase / toUpperCase on one character. The upper
\* case of U+017F is "S", whose lower case is "s".
toLowerCase(c) ==
    IF \E i \in 1..Len(UpperChars) : UpperChars[i] = c
    THEN LowerChars[CHOOSE i \in 1..Len(UpperChars) : UpperChars[i] = c]
    ELSE c

toUpperCase(c) ==
    IF c = LongS THEN "S"
    ELSE IF \E i \in 1..Len(LowerChars) : LowerChars[i] = c
    THEN UpperChars[CHOOSE i \in 1..Len(LowerChars) : LowerChars[i] = c]
    ELSE c

\* JavaScript's a < b on strings: code unit by code unit, a proper prefix first.
RECURSIVE StrLess(_, _)
StrLess(a, b) ==
    IF b = << >> THEN FALSE
    ELSE IF a = << >> THEN TRUE
    ELSE IF Head(a) = Head(b) THEN StrLess(Tail(a), Tail(b))
    ELSE CharCode(Head(a)) < CharCode(Head(b))

\* The first index >= i at which sep occurs in s, 0 when there is none.
RECURSIVE IndexOf(_, _, _)
IndexOf(s, sep, i) ==
    IF i + Len(sep) - 1 > Len(s) THEN 0
    ELSE IF SubSeq(s, i, i + Len(sep) - 1) = sep THEN i
    ELSE IndexOf(s, sep, i + 1)

\* String.prototype.split(sep): every occurrence of sep separates two parts.
RECURSIVE split(_, _)
split(s, sep) ==
    LET k == IndexOf(s, sep, 1)
    IN  IF k = 0 THEN << s >>
        ELSE << SubSeq(s, 1, k - 1) >> \o split(SubSeq(s, k + Len(sep), Len(s)), sep)

\* Array.prototype.join(sep).
RECURSIVE join(_, _)
join(parts, sep) ==
    IF parts = << >> THEN << >>
    ELSE IF Len(parts) = 1 THEN parts[1]
    ELSE parts[1] \o sep \o join(Tail(parts), sep)

Newline == << "\n" >>
Separator == << ":", " " >>

\* ------------------------------------------------------------ message codec

\* A property of a parsed object: a string, or undefined.
Undefined == [def |-> FALSE, val |-> << >>]
Defined(text) == [def |-> TRUE, val |-> text]

\* JavaScript's !v for a string or undefined.
Falsy(v) == ~v.def \/ v.val = << >>

\* data[key], undefined when the object has no such property.
Prop(data, key) == IF key \in DOMAIN data THEN data[key] ELSE Undefined

EmptyObject == [k \in {} |-> Undefined]

SetProp(data, key, value) ==
    [k \in DOMAIN data \cup {key} |-> IF k = key THEN value ELSE data[k]]

\* Mutant of lowerCamelCaseKey: the key is kept as it is written.
M_lowerCamelCaseKey_Kept(key) == key

lowerCamelCaseKey(key) == << toLowerCase(key[1]) >> \o Tail(key)

upperCamelCaseKey(key) ==
    IF key = << >> THEN << >> ELSE << toUpperCase(key[1]) >> \o Tail(key)

\* Mutant of parseLines: a line without a key ends the loop.
RECURSIVE M_parseLines_StopsAtNoKey(_, _)
M_parseLines_StopsAtNoKey(lines, data) ==
    IF lines = << >> THEN data
    ELSE LET parts == split(Head(lines), Separator)
             key   == parts[1]
             value == IF Len(parts) >= 2 THEN Defined(parts[2]) ELSE Undefined
         IN  IF key = << >>
             THEN data
             ELSE M_parseLines_StopsAtNoKey(
                      Tail(lines), SetProp(data, lowerCamelCaseKey(key), value))

\* The loop of parseMessage over the lines.
RECURSIVE parseLines(_, _)
parseLines(lines, data) ==
    IF lines = << >> THEN data
    ELSE LET parts == split(Head(lines), Separator)
             key   == parts[1]
             value == IF Len(parts) >= 2 THEN Defined(parts[2]) ELSE Undefined
         IN  IF key = << >>
             THEN parseLines(Tail(lines), data)
             ELSE parseLines(Tail(lines), SetProp(data, lowerCamelCaseKey(key), value))

parseMessage(message) == parseLines(split(message, Newline), EmptyObject)

\* buildMessage over Object.entries(data), a sequence of <<key, value>>.
buildMessage(entries) ==
    join([i \in 1..Len(entries) |->
            upperCamelCaseKey(entries[i][1]) \o Separator \o entries[i][2]],
         Newline)

\* ------------------------------------------------------------- timestamps

Digits == << "0", "1", "2", "3", "4", "5", "6", "7", "8", "9" >>

\* Date.prototype.toISOString(): a fixed-width text whose lexicographic order
\* is the order of the instants (two decimal digits stand for the 24
\* characters of the real format).
toISOString(t) == << Digits[(t \div 10) + 1], Digits[(t % 10) + 1] >>

Times == 0..(MaxTime + ChallengeTtl)

\* ------------------------------------------------------- signature verifier

\* Wallet addresses: base-58 texts of 32-byte Ed25519 public keys.
Addresses == { << "A" >>, << "B" >> }

\* A signature as submitted: well-formed base-58 text of a signature made by
\* the keypair of `signer` over `msg`, or text that is not base-58.
Sign(signer, msg) == [wf |-> TRUE, signer |-> signer, msg |-> msg]
MalformedSignature == [wf |-> FALSE, signer |-> << >>, msg |-> << >>]

\* Mutants of validateSignature: the message is not what the signature is
\* checked against; a signature that does not verify raises an Error.
M_validateSignature_AnyMessage(publicKey, message, signature) ==
    IF publicKey \notin Addresses \/ ~signature.wf THEN "throw"
    ELSE IF signature.signer = publicKey THEN "true"
    ELSE "false"

M_validateSignature_Throws(publicKey, message, signature) ==
    IF publicKey \notin Addresses \/ ~signature.wf THEN "throw"
    ELSE IF signature.signer = publicKey /\ signature.msg = message THEN "true"
    ELSE "throw"

\* validateSignature: "throw" when bs58.decode or importKey rejects an
\* encoding, else whether the signature verifies ("true" / "false").
validateSignature(publicKey, message, signature) ==
    IF publicKey \notin Addresses \/ ~signature.wf THEN "throw"
    ELSE IF signature.signer = publicKey /\ signature.msg = message THEN "true"
    ELSE "false"

\* ------------------------------------------------------------------ state

VARIABLES
    now,         \* the server's clock
    challenges,  \* the Challenge store: a set of [nonce, expires_at]
    users,       \* the User store: users[id] is the wallet of user id
    pc,          \* pc[p]: where login request p stands
    req,         \* req[p]: the body of login request p
    chal,        \* chal[p]: the challenge the lookup of p returned
    tCheck,      \* tCheck[p]: the clock when p ran its checks
    user,        \* user[p]: the user findUser returned to p
    resp,        \* resp[p]: the response to p
    hist,        \* hist[p]: the login answered last when p arrived
    last,        \* the nonce and the outcome of the login answered last
    usersWas,    \* usersWas[p]: the User store when p arrived
    issued,      \* the body of the last response to GET /challenge
    appResp,     \* the last request to a session route of the app, and its answer
    conversations,  \* the Conversation store: conversations[id] is [owner, created_at]
    messages,    \* the Message store: messages[id] is
                 \* [conversation, content, message_type, created_at]
    chatResp,    \* the last call of a ChatService query or of its route, and its answer
    post,        \* post[h]: the POST /conversation/:id/messages request h handles
    log,         \* the POST /conversation/:id/messages requests answered, in order
    codec,       \* a mapping given to the message codec, its text and what it decodes to
    captured,    \* a login request that was accepted, as kept by who saw it
    simulatedRobotConnections,  \* the simulated robots: their status, their
                 \* pending timeouts and intervals, the commands they took
    handled,     \* handled[r]: the command responses and the errors of robot r
                 \* that handleRobotMessage received
    commandResult  \* what the last sendCommandToRobot returned

storeVars == << challenges, users >>
loginVars == << pc, req, chal, tCheck, user, resp, hist, last, usersWas >>
chatVars == << conversations, messages, chatResp, post >>
\* What only the POST handler, the codec's callers and who replays a login
\* touch.
robotVars == << simulatedRobotConnections, handled, commandResult >>
auxVars == << log, codec, captured, robotVars >>
\* What no step of a login request touches.
extVars == << issued, appResp, chatVars, auxVars >>
vars == << now, storeVars, loginVars, extVars >>

Procs == 1..MaxConcurrent

\* crypto.randomUUID(): the i-th call returns a text no earlier call returned.
randomUUID(i) == << "n", Digits[i + 1] >>

\* The nonces a request may name: those issued and one that never is.
NoncePool == { randomUUID(i) : i \in 1..(MaxChallenges + 1) }

NoChallenge == [present |-> FALSE, nonce |-> << >>, expires_at |-> 0]
NoUser == [present |-> FALSE, id |-> 0, wallet |-> << >>]
NoToken == [set |-> FALSE, id |-> 0, wallet |-> << >>, exp |-> 0, key |-> ""]
NoRequest ==
    [address |-> << >>, message |-> << >>, nonce |-> << >>,
     signature |-> MalformedSignature]
NoResponse == [status |-> 0, message |-> "", cookie |-> NoToken]
NoLogin == [nonce |-> << >>, outcome |-> "none"]

\* Mutant of jwtSign: the wallet is left out of the claims.
M_jwtSign_WalletOmitted(u, t) ==
    [set |-> TRUE, id |-> u.id, wallet |-> << >>, exp |-> t + SessionTtl,
     key |-> "server"]

\* jwt.sign({id, wallet}) at time t: the token carries the two claims and its
\* expiry, under the signature of the server's secret.
jwtSign(u, t) ==
    [set |-> TRUE, id |-> u.id, wallet |-> u.wallet, exp |-> t + SessionTtl,
     key |-> "server"]

NoIssue == [nonce |-> << >>, expires_at |-> 0]
\* The handlers of POST /conversation/:id/messages that may run at once.
Handlers == { "h1", "h2" }

NoChatResponse ==
    [via |-> "", op |-> "", user |-> 0, conversation |-> 0, content |-> << >>,
     status |-> 0, message |-> "", id |-> 0, created_at |-> 0, items |-> << >>]

NoPayload == [code |-> 0, message |-> ""]

\* No login request has been kept.
NoCapture == [set |-> FALSE, req |-> NoRequest, at |-> 0]

\* No mapping has been given to the codec.
NoCodec ==
    [step |-> "none", source |-> "", entries |-> << >>, text |-> << >>,
     data |-> << >>]

\* A handler with no request: the locals of the generator function, the
\* response (status, payload, sent) and what the request has done so far
\* (userMessage and aiMessage: the rows it inserted; read: the rows of the
\* history it read; called: the model was called; ended: its stream ran to
\* the end; closed: the client went away).
IdlePost ==
    [pc |-> "idle", controller |-> "", user |-> 0, conversation |-> 0,
     content |-> << >>, userMessage |-> 0, read |-> << >>, history |-> << >>,
     called |-> FALSE, fullAiResponse |-> << >>, streamStarted |-> FALSE,
     chunk |-> << >>, chunks |-> 0, sent |-> << >>, ended |-> FALSE,
     aiMessage |-> 0, status |-> 0, payload |-> NoPayload, closed |-> FALSE]

NoAppResponse ==
    [route |-> "", cookie |-> NoToken, time |-> 0,
     status |-> 0, message |-> "", body |-> NoToken]

\* ---------------------------------------------------- the simulated robots

\* generateSimulatedRobots(3) makes robot-1, robot-2 and robot-3, each with a
\* connection, a status and timers of its own, and no step of one reads or
\* writes another: the model keeps robot-1.
RobotIds == { "robot-1" }

\* The battery on a scale of three: BatteryLow is a level of 10 or less,
\* BatteryFull one of 100, BatteryStart a level between the two.
BatteryLow == 0
BatteryStart == 1
BatteryFull == 2

null == "null"

\* initialStatus, without the fields no step reads or writes. position.x is
\* counted from where the robot started, orientation.z in tenths.
initialStatus ==
    [x |-> 0, z |-> 0, batteryLevel |-> BatteryStart, isCharging |-> FALSE,
     status |-> "idle", task |-> null]

\* A connection as its constructor leaves it: no timer is pending. commands
\* keeps the commands for which a timeout was set, in order.
NoCommandYet ==
    [status |-> initialStatus, timeouts |-> << >>, intervals |-> 0, commands |-> << >>]

NothingHandled == [responses |-> << >>, errors |-> << >>]
NoCommandResult == [status |-> "", robotId |-> "", command |-> ""]

\* The cases of the switch but the default.
KnownCommands == { "move_forward", "turn_left", "turn_right", "stop" }

\* The switch of handleSimulatedCommand on a command it knows.
executed(status, command) ==
    CASE command = "move_forward" ->
           [status EXCEPT !.x = @ + 1, !.status = "executing", !.task = "Moving Forward"]
      [] command = "turn_left" ->
           [status EXCEPT !.z = @ + 1, !.status = "executing", !.task = "Turning Left"]
      [] command = "turn_right" ->
           [status EXCEPT !.z = @ - 1, !.status = "executing", !.task = "Turning Right"]
      [] command = "stop" ->
           [status EXCEPT !.status = "idle", !.task = null]

responseMessage(command) ==
    CASE command = "move_forward" -> "Moving forward."
      [] command = "turn_left" -> "Turning left."
      [] command = "turn_right" -> "Turning right."
      [] command = "stop" -> "Stopping."
      [] OTHER -> "Unknown command"

\* Mutant of completed: the timeout leaves the status as it finds it.
M_completed_Unchanged(status) == status

\* The callback of setTimeout: an executing robot becomes idle.
completed(status) ==
    IF status.status = "executing"
    THEN [status EXCEPT !.status = "idle", !.task = null]
    ELSE status

Init ==
    /\ now = 0
    /\ challenges = {}
    /\ users = << >>
    /\ pc = [p \in Procs |-> "idle"]
    /\ req = [p \in Procs |-> NoRequest]
    /\ chal = [p \in Procs |-> NoChallenge]
    /\ tCheck = [p \in Procs |-> 0]
    /\ user = [p \in Procs |-> NoUser]
    /\ resp = [p \in Procs |-> NoResponse]
    /\ hist = [p \in Procs |-> NoLogin]
    /\ last = NoLogin
    /\ usersWas = [p \in Procs |-> << >>]
    /\ issued = NoIssue
    /\ appResp = NoAppResponse
    /\ conversations = << >>
    /\ messages = << >>
    /\ chatResp = NoChatResponse
    /\ post = [h \in Handlers |-> IdlePost]
    /\ log = << >>
    /\ codec = NoCodec
    /\ captured = NoCapture
    /\ simulatedRobotConnections = [r \in RobotIds |-> NoCommandYet]
    /\ handled = [r \in RobotIds |-> NothingHandled]
    /\ commandResult = NoCommandResult

\* The clock advances.
Tick ==
    /\ now < MaxTime
    /\ now' = now + 1
    /\ UNCHANGED << storeVars, loginVars, extVars >>

\* Mutant of challengeExpiry: the lifetime is not added.
M_challengeExpiry_Now(t) == t

\* new Date(Date.now() + 1000 * 60 * 5)
challengeExpiry(t) == t + ChallengeTtl

\* GET /challenge: UserService.getChallenge. The route has no guard.
getChallenge ==
    /\ LET nonce == randomUUID(Cardinality(challenges) + 1)
           expiresAt == challengeExpiry(now)
       IN  /\ challenges' =
                 challenges \cup { [nonce |-> nonce, expires_at |-> expiresAt] }
           /\ issued' = [nonce |-> nonce, expires_at |-> expiresAt]
    /\ UNCHANGED << now, users, loginVars, auxVars, appResp, chatVars >>

\* ------------------------------------------------------------ login requests

nonceKey == << "n", "o", "n", "c", "e" >>
addressKey == << "a", "d", "d", "r", "e", "s", "s" >>
expiresAtKey == << "e", "x", "p", "i", "r", "e", "s", "A", "t" >>

\* A text that is no timestamp and no message of the protocol.
OtherText == << "T" >>

OtherNonce(n) == CHOOSE m \in NoncePool : m # n
OtherAddress(a) == CHOOSE b \in Addresses : b # a

\* How a request may deviate from the protocol, in one of its parts.
Deviations ==
    { "none", "nonceOther", "nonceAbsent", "addressOther", "addressAbsent",
      "expiresAtText", "expiresAtAbsent",
      "signedByOtherKey", "signedOtherMessage", "signatureMalformed" }

\* The message of a request: buildMessage({nonce, address, expiresAt}) as the
\* tests build it, with the field the deviation leaves out or changes.
RequestMessage(n, a, e, d) ==
    buildMessage(
        (IF d = "nonceAbsent" THEN << >>
         ELSE << << nonceKey, IF d = "nonceOther" THEN OtherNonce(n) ELSE n >> >>)
        \o
        (IF d = "addressAbsent" THEN << >>
         ELSE << << addressKey, IF d = "addressOther" THEN OtherAddress(a) ELSE a >> >>)
        \o
        (IF d = "expiresAtAbsent" THEN << >>
         ELSE << << expiresAtKey,
                    IF d = "expiresAtText" THEN OtherText ELSE toISOString(e) >> >>))

MakeRequest(n, a, e, d) ==
    LET m == RequestMessage(n, a, e, d)
    IN  [address |-> a, message |-> m, nonce |-> n,
         signature |->
            CASE d = "signedByOtherKey" -> Sign(OtherAddress(a), m)
              [] d = "signedOtherMessage" -> Sign(a, OtherText)
              [] d = "signatureMalformed" -> MalformedSignature
              [] OTHER -> Sign(a, m)]

\* The login requests of clients that may deviate from the protocol: the
\* message names any instant as its expiry, or the request deviates in one
\* part and its message names the latest instant.
LoginRequests ==
    { MakeRequest(n, a, e, "none") : n \in NoncePool, a \in Addresses, e \in Times }
    \cup
    { MakeRequest(n, a, MaxTime + ChallengeTtl, d) :
        n \in NoncePool, a \in Addresses, d \in Deviations }

\* A text that is no base-58 text of a public key: "0" is not in the alphabet.
MalformedAddress == << "0" >>

\* A request that may deviate in several parts at once: the nonce and the
\* address its message names, the expiry it names, the address it is sent
\* from and its signature.
RequestOf(n, a, e, nonceIs, addressIs, signatureIs) ==
    LET m == buildMessage(
                 << << nonceKey, IF nonceIs = "other" THEN OtherNonce(n) ELSE n >>,
                    << addressKey,
                       IF addressIs = "other" THEN OtherAddress(a) ELSE a >>,
                    << expiresAtKey, toISOString(e) >> >>)
    IN  [address |-> a, message |-> m, nonce |-> n,
         signature |->
            CASE signatureIs = "otherKey" -> Sign(OtherAddress(a), m)
              [] signatureIs = "malformed" -> MalformedSignature
              [] OTHER -> Sign(a, m)]

\* The requests that name the first nonce issued or one never issued and come
\* from one wallet or from a malformed address.
ManyRequests ==
    { RequestOf(n, a, e, nonceIs, addressIs, signatureIs) :
        n \in { randomUUID(1), randomUUID(MaxChallenges + 1) },
        a \in { << "A" >>, MalformedAddress },
        e \in Times,
        nonceIs \in { "same", "other" },
        addressIs \in { "same", "other" },
        signatureIs \in { "good", "otherKey", "malformed" } }

\* The login requests of clients that follow the protocol: the answer to an
\* issued challenge, signed by the wallet that logs in.
HonestRequests ==
    { MakeRequest(c.nonce, a, c.expires_at, "none") :
        c \in challenges, a \in Addresses }

\* ------------------------------------------------- verifyAndAuthenticate

\* Mutant of challengeMissing: the lookup's result is not tested.
M_challengeMissing_Unchecked(challenge) == FALSE

\* !challenge
challengeMissing(challenge) == ~challenge.present

\* Mutant of challengeExpired: the comparison is turned around.
M_challengeExpired_Reversed(challenge, t) == challenge.expires_at > t

\* challenge.expires_at < new Date()
challengeExpired(challenge, t) == challenge.expires_at < t

\* Mutant of nonceInvalid: only the presence of the nonce is tested.
M_nonceInvalid_PresenceOnly(parsed, nonce) == Falsy(Prop(parsed, nonceKey))

\* !parsedMessage.nonce || parsedMessage.nonce !== nonce
nonceInvalid(parsed, nonce) ==
    Falsy(Prop(parsed, nonceKey)) \/ Prop(parsed, nonceKey).val # nonce

\* Mutant of addressInvalid: only the presence of the address is tested.
M_addressInvalid_PresenceOnly(parsed, address) == Falsy(Prop(parsed, addressKey))

\* !parsedMessage.address || parsedMessage.address !== address
addressInvalid(parsed, address) ==
    Falsy(Prop(parsed, addressKey)) \/ Prop(parsed, addressKey).val # address

\* Mutant of messageExpired: the expiry the message names is not compared.
M_messageExpired_Unchecked(parsed, t) == Falsy(Prop(parsed, expiresAtKey))

\* Mutant of messageExpired: an expiry equal to the clock counts as passed.
M_messageExpired_NotLater(parsed, t) ==
    \/ Falsy(Prop(parsed, expiresAtKey))
    \/ ~StrLess(toISOString(t), Prop(parsed, expiresAtKey).val)

\* !parsedMessage.expiresAt || parsedMessage.expiresAt < new Date().toISOString()
messageExpired(parsed, t) ==
    \/ Falsy(Prop(parsed, expiresAtKey))
    \/ StrLess(Prop(parsed, expiresAtKey).val, toISOString(t))

\* Mutant of checkRequest: the address is checked before the nonce.
M_checkRequest_AddressFirst(r, challenge, t) ==
    IF challengeMissing(challenge) THEN "Challenge not found"
    ELSE IF challengeExpired(challenge, t) THEN "Challenge expired"
    ELSE LET parsed == parseMessage(r.message)
         IN  IF addressInvalid(parsed, r.address) THEN "Invalid address"
             ELSE IF nonceInvalid(parsed, r.nonce) THEN "Invalid nonce"
             ELSE IF messageExpired(parsed, t) THEN "Challenge expired"
             ELSE ""

\* The checks that precede the signature's, in the order of the code: the
\* message of the Error thrown, "" when none is.
checkRequest(r, challenge, t) ==
    IF challengeMissing(challenge) THEN "Challenge not found"
    ELSE IF challengeExpired(challenge, t) THEN "Challenge expired"
    ELSE LET parsed == parseMessage(r.message)
         IN  IF nonceInvalid(parsed, r.nonce) THEN "Invalid nonce"
             ELSE IF addressInvalid(parsed, r.address) THEN "Invalid address"
             ELSE IF messageExpired(parsed, t) THEN "Challenge expired"
             ELSE ""

\* The message of the Error bs58.decode or importKey throws.
EncodingError == "Non-base58 character"

\* Mutants of findUser: the select has lost its filter; the select matches
\* no user.
M_findUser_Unfiltered(address) == 1..Len(users)
M_findUser_None(address) == {}

\* The ids of the users findUser's select matches.
findUser(address) == { id \in 1..Len(users) : users[id] = address }

\* Mutant of Reject: the answer carries no message.
M_Reject_NoMessage(p, message) ==
    /\ resp' = [resp EXCEPT ![p] =
                  [status |-> 401, message |-> "", cookie |-> NoToken]]
    /\ pc' = [pc EXCEPT ![p] = "done"]
    /\ last' = [nonce |-> req[p].nonce, outcome |-> "rejected"]

\* Mutant of Reject: the Error is not caught and the framework answers 500.
M_Reject_Unhandled(p, message) ==
    /\ resp' = [resp EXCEPT ![p] =
                  [status |-> 500, message |-> message, cookie |-> NoToken]]
    /\ pc' = [pc EXCEPT ![p] = "done"]
    /\ last' = [nonce |-> req[p].nonce, outcome |-> "rejected"]

\* POST /login, catch (e): error(401, {message: e.message}); no cookie is set.
Reject(p, message) ==
    /\ resp' = [resp EXCEPT ![p] =
                  [status |-> 401, message |-> message, cookie |-> NoToken]]
    /\ pc' = [pc EXCEPT ![p] = "done"]
    /\ last' = [nonce |-> req[p].nonce, outcome |-> "rejected"]

\* POST /login arrives with body r; the handler calls verifyAndAuthenticate,
\* which sends the select of the challenge.
LoginRequest(p, r) ==
    /\ pc[p] = "idle"
    /\ req' = [req EXCEPT ![p] = r]
    /\ pc' = [pc EXCEPT ![p] = "select"]
    /\ hist' = [hist EXCEPT ![p] = last]
    /\ usersWas' = [usersWas EXCEPT ![p] = users]
    /\ UNCHANGED << now, storeVars, chal, tCheck, user, resp, last, extVars >>

\* The store answers the select of the challenge (filter nonce = nonce, limit 1).
SelectChallenge(p) ==
    /\ pc[p] = "select"
    /\ LET found == { c \in challenges : c.nonce = req[p].nonce }
       IN  IF found = {}
           THEN chal' = [chal EXCEPT ![p] = NoChallenge]
           ELSE \E c \in found :
                   chal' = [chal EXCEPT ![p] =
                              [present |-> TRUE, nonce |-> c.nonce,
                               expires_at |-> c.expires_at]]
    /\ pc' = [pc EXCEPT ![p] = "check"]
    /\ UNCHANGED << now, storeVars, req, tCheck, user, resp, hist, last, usersWas, extVars >>

\* verifyAndAuthenticate resumes: the checks up to the call of validateSignature.
CheckRequest(p) ==
    /\ pc[p] = "check"
    /\ tCheck' = [tCheck EXCEPT ![p] = now]
    /\ LET failure == checkRequest(req[p], chal[p], now)
       IN  IF failure # ""
           THEN Reject(p, failure)
           ELSE /\ pc' = [pc EXCEPT ![p] = "verify"]
                /\ UNCHANGED << resp, last >>
    /\ UNCHANGED << now, storeVars, req, chal, user, hist, usersWas, extVars >>

\* validateSignature settles: isValid, or an Error for a malformed encoding.
VerifySignature(p) ==
    /\ pc[p] = "verify"
    /\ LET isValid == validateSignature(req[p].address, req[p].message, req[p].signature)
       IN  CASE isValid = "true" ->
                  /\ pc' = [pc EXCEPT ![p] = "find"]
                  /\ UNCHANGED << resp, last >>
             [] isValid = "false" -> Reject(p, "Invalid signature")
             [] OTHER -> Reject(p, EncodingError)
    /\ UNCHANGED << now, storeVars, req, chal, tCheck, user, hist, usersWas, extVars >>

\* let user = await this.findUser(address)
FindUser(p) ==
    /\ pc[p] = "find"
    /\ IF findUser(req[p].address) = {}
       THEN /\ pc' = [pc EXCEPT ![p] = "insert"]
            /\ UNCHANGED user
       ELSE /\ \E id \in findUser(req[p].address) :
                  user' = [user EXCEPT ![p] =
                             [present |-> TRUE, id |-> id, wallet |-> users[id]]]
            /\ pc' = [pc EXCEPT ![p] = "sign"]
    /\ UNCHANGED << now, storeVars, req, chal, tCheck, resp, hist, last, usersWas, extVars >>

\* insert(User, {wallet: address}): the schema puts no constraint on wallet.
InsertUser(p) ==
    /\ pc[p] = "insert"
    /\ users' = Append(users, req[p].address)
    /\ pc' = [pc EXCEPT ![p] = "refetch"]
    /\ UNCHANGED << now, challenges, req, chal, tCheck, user, resp, hist, last, usersWas, extVars >>

\* user = await this.findUser(address), after the insert.
RefetchUser(p) ==
    /\ pc[p] = "refetch"
    /\ IF findUser(req[p].address) = {}
       THEN user' = [user EXCEPT ![p] = NoUser]
       ELSE \E id \in findUser(req[p].address) :
               user' = [user EXCEPT ![p] =
                          [present |-> TRUE, id |-> id, wallet |-> users[id]]]
    /\ pc' = [pc EXCEPT ![p] = "sign"]
    /\ UNCHANGED << now, storeVars, req, chal, tCheck, resp, hist, last, usersWas, extVars >>

\* POST /login after verifyAndAuthenticate returned: the token is signed and
\* the accessToken cookie set.
IssueSession(p) ==
    /\ pc[p] = "sign"
    /\ IF ~user[p].present
       THEN Reject(p, "Invalid data")
       ELSE /\ resp' = [resp EXCEPT ![p] =
                          [status |-> 200, message |-> "Logged in successfully",
                           cookie |-> jwtSign(user[p], now)]]
            /\ pc' = [pc EXCEPT ![p] = "done"]
            /\ last' = [nonce |-> req[p].nonce, outcome |-> "succeeded"]
    /\ UNCHANGED << now, storeVars, req, chal, tCheck, user, hist, usersWas, extVars >>

\* The response to p has been sent and the handler has returned.
LoginDone(p) ==
    /\ pc[p] = "done"
    /\ pc' = [pc EXCEPT ![p] = "idle"]
    /\ req' = [req EXCEPT ![p] = NoRequest]
    /\ chal' = [chal EXCEPT ![p] = NoChallenge]
    /\ tCheck' = [tCheck EXCEPT ![p] = 0]
    /\ user' = [user EXCEPT ![p] = NoUser]
    /\ resp' = [resp EXCEPT ![p] = NoResponse]
    /\ hist' = [hist EXCEPT ![p] = NoLogin]
    /\ usersWas' = [usersWas EXCEPT ![p] = << >>]
    /\ UNCHANGED << now, storeVars, last, extVars >>

\* The message of the Error the database client throws when a query fails.
StoreError == "query failed"

\* A query of verifyAndAuthenticate fails: the select of the challenge, a
\* findUser or the insert of the User throws, and the handler's catch answers.
StoreFails(p) ==
    /\ pc[p] \in { "select", "find", "insert", "refetch" }
    /\ Reject(p, StoreError)
    /\ UNCHANGED << now, storeVars, req, chal, tCheck, user, hist, usersWas, extVars >>

\* Who saw the accepted request p (its message, signature and nonce) keeps it.
Capture(p) ==
    /\ pc[p] = "done" /\ resp[p].status = 200
    /\ ~captured.set
    /\ captured' = [set |-> TRUE, req |-> req[p], at |-> now]
    /\ UNCHANGED << now, storeVars, loginVars, issued, appResp, chatVars, log,
                    codec, robotVars >>

\* The steps of login request p after its arrival.
LoginStep(p) ==
    \/ SelectChallenge(p)
    \/ CheckRequest(p)
    \/ VerifySignature(p)
    \/ FindUser(p)
    \/ InsertUser(p)
    \/ RefetchUser(p)
    \/ IssueSession(p)

\* ------------------------------------------------------------ session routes

\* jwt.verify(cookie.accessToken.value) at time t: the claims, or false
\* (no claims) for a token of another key or one whose expiry has come.
jwtVerify(token, t) ==
    IF token.set /\ token.key = "server" /\ t < token.exp THEN token ELSE NoToken

\* userService's derive: isLoggedIn and user of a request with this cookie.
userDerive(cookie, t) ==
    IF cookie.set
    THEN [isLoggedIn |-> TRUE, user |-> jwtVerify(cookie, t)]
    ELSE [isLoggedIn |-> FALSE, user |-> NoToken]

\* The isLoggedIn macro's beforeHandle: !s.user || !s.isLoggedIn.
unauthorized(s) == ~s.user.set \/ ~s.isLoggedIn

\* The routes the specification lists as authenticated.
Routes ==
    { "GET /me", "GET /conversations", "POST /conversations",
      "GET /conversation/:id", "GET /conversation/:id/messages",
      "POST /conversation/:id/messages" }

\* setupApp: the routes the app registers besides userController's, each with
\* a handler that returns an empty value and without the isLoggedIn macro.
StubRoutes ==
    { "GET /conversations", "GET /conversation/:id",
      "POST /conversation/:id/messages", "GET /conversation/:id/messages" }

\* The token of a client that signs claims with a key of its own.
Forged(token) == [token EXCEPT !.key = "other"]

\* The cookies a request may carry: none, a token a login set, that token
\* forged.
Cookies ==
    { NoToken } \cup
    UNION { { resp[p].cookie, Forged(resp[p].cookie) } :
              p \in { q \in Procs : resp[q].cookie.set } }

\* A request to a route of the app built by setupApp.
AppRequest(route, cookie) ==
    /\ LET s == userDerive(cookie, now)
           answer ==
               CASE route = "GET /me" ->
                      IF unauthorized(s)
                      THEN [status |-> 401, message |-> "Unauthorized", body |-> NoToken]
                      ELSE [status |-> 200, message |-> "", body |-> s.user]
                 [] route \in StubRoutes ->
                      [status |-> 200, message |-> "", body |-> NoToken]
                 [] OTHER ->
                      [status |-> 404, message |-> "NOT_FOUND", body |-> NoToken]
       IN  appResp' =
               [route |-> route, cookie |-> cookie, time |-> now,
                status |-> answer.status, message |-> answer.message,
                body |-> answer.body]
    /\ UNCHANGED << now, storeVars, loginVars, auxVars, issued, chatVars >>

\* The client has read the answer.
AppDone ==
    /\ appResp # NoAppResponse
    /\ appResp' = NoAppResponse
    /\ UNCHANGED << now, storeVars, loginVars, auxVars, issued, chatVars >>

\* The clock advances by the lifetime of a session.
Sleep ==
    /\ now <= MaxTime
    /\ now' = now + SessionTtl
    /\ UNCHANGED << storeVars, loginVars, extVars >>

\* ------------------------------------------------------------- chat service

\* The texts a client posts and the chunks the language model streams.
Contents == { << "x" >> }
Chunks == { << "a" >>, << " " >> }

\* Mutant of datetime_current: the clock runs backwards.
M_datetime_current_Backwards == 100 - Len(conversations) - Len(messages)

\* datetime_current(), the default of created_at: the store's clock gives
\* every insert an instant later than that of the rows stored before it.
datetime_current == Len(conversations) + Len(messages) + 1

\* Mutant of orderBy: the direction is not honoured, the rows come ascending.
RECURSIVE M_orderBy_Ascending(_, _)
M_orderBy_Ascending(rows, direction) ==
    IF rows = {} THEN << >>
    ELSE LET first == CHOOSE r \in rows : \A q \in rows : r.created_at <= q.created_at
         IN  << first >> \o M_orderBy_Ascending(rows \ {first}, direction)

\* Mutant of orderBy: the direction is turned around.
RECURSIVE M_orderBy_Reversed(_, _)
M_orderBy_Reversed(rows, direction) ==
    IF rows = {} THEN << >>
    ELSE LET first ==
                 CHOOSE r \in rows : \A q \in rows :
                     IF direction = "ASC"
                     THEN r.created_at >= q.created_at
                     ELSE r.created_at <= q.created_at
         IN  << first >> \o M_orderBy_Reversed(rows \ {first}, direction)

\* order_by: {expression: created_at, direction}: the selected rows in a
\* sequence, by created_at in the direction given.
RECURSIVE orderBy(_, _)
orderBy(rows, direction) ==
    IF rows = {} THEN << >>
    ELSE LET first ==
                 CHOOSE r \in rows : \A q \in rows :
                     IF direction = "ASC"
                     THEN r.created_at <= q.created_at
                     ELSE r.created_at >= q.created_at
         IN  << first >> \o orderBy(rows \ {first}, direction)

\* Mutant of ownedBy: the filter on the owner is dropped.
M_ownedBy_Anyone(conversationId, userId) == TRUE

\* dbschema.op(conversation.owner.id, "=", $uuid(userId))
ownedBy(conversationId, userId) == conversations[conversationId].owner = userId

\* Mutant of selectConversation: the conversation is selected by its id alone.
M_selectConversation_ById(conversationId, userId) ==
    { c \in 1..Len(conversations) : c = conversationId }

\* The filter of getConversation and addMessage: the conversation with this id
\* that this user owns.
selectConversation(conversationId, userId) ==
    { c \in 1..Len(conversations) : c = conversationId /\ ownedBy(c, userId) }

\* The shape a Conversation is selected with by getConversations.
conversationRow(c) == [id |-> c, created_at |-> conversations[c].created_at]

\* The shape a Message is selected with.
messageRow(m) ==
    [id |-> m, content |-> messages[m].content,
     created_at |-> messages[m].created_at,
     message_type |-> messages[m].message_type]

\* Mutant of messagesOf: the Message inserted last is not seen.
M_messagesOf_AllButLast(conversationId) ==
    { m \in 1..(Len(messages) - 1) : messages[m].conversation = conversationId }

\* The messages link of a Conversation: the Messages whose conversation it is.
messagesOf(conversationId) ==
    { m \in 1..Len(messages) : messages[m].conversation = conversationId }

\* What a call of the service returns or throws: error is the message of the
\* Error, "" when the call returns.
Returned(id, created_at, items) ==
    [error |-> "", id |-> id, created_at |-> created_at, items |-> items]
Thrown(message) == [error |-> message, id |-> 0, created_at |-> 0, items |-> << >>]

\* Mutant of ownerMissing: the owner is not required to exist.
M_ownerMissing_Unchecked(userId) == FALSE

\* required owner: User with assert_single(select User filter .id = userId):
\* the insert is refused when the select is empty.
ownerMissing(userId) == userId \notin 1..Len(users)

MissingOwner == "missing value for required link 'owner'"

\* ChatService.createConversation: the result, and the store after the call.
createConversation(userId) ==
    IF ownerMissing(userId) THEN Thrown(MissingOwner)
    ELSE Returned(Len(conversations) + 1, datetime_current, << >>)

conversationsAfter(userId) ==
    IF ownerMissing(userId) THEN conversations
    ELSE Append(conversations, [owner |-> userId, created_at |-> datetime_current])

\* ChatService.getConversations
getConversations(userId) ==
    Returned(0, 0,
        orderBy({ conversationRow(c) :
                    c \in { d \in 1..Len(conversations) : ownedBy(d, userId) } },
                "DESC"))

\* ChatService.getConversation
getConversation(conversationId, userId) ==
    IF selectConversation(conversationId, userId) = {}
    THEN Thrown("Conversation not found")
    ELSE Returned(conversationId, conversations[conversationId].created_at,
                  orderBy({ messageRow(m) : m \in messagesOf(conversationId) }, "ASC"))

\* Mutant of addMessage: the conversation is looked up by its id alone.
M_addMessage_AnyOwner(conversationId, userId, content) ==
    IF conversationId \notin 1..Len(conversations)
    THEN Thrown("Conversation not found")
    ELSE Returned(Len(messages) + 1, datetime_current,
                  << [id |-> Len(messages) + 1, content |-> content,
                      created_at |-> datetime_current, message_type |-> "user"] >>)

\* ChatService.addMessage: the select of the conversation the user owns, then
\* the insert of the 'user' message.
addMessage(conversationId, userId, content) ==
    IF selectConversation(conversationId, userId) = {}
    THEN Thrown("Conversation not found")
    ELSE Returned(Len(messages) + 1, datetime_current,
                  << [id |-> Len(messages) + 1, content |-> content,
                      created_at |-> datetime_current, message_type |-> "user"] >>)

MissingConversation == "missing value for required link 'conversation'"

\* Mutant of saveAIMessage: the insert goes through with no Conversation.
M_saveAIMessage_Unlinked(conversationId, content) ==
    Returned(Len(messages) + 1, datetime_current,
             << [id |-> Len(messages) + 1, content |-> content,
                 created_at |-> datetime_current, message_type |-> "ai"] >>)

\* ChatService.saveAIMessage: the insert of the 'ai' message, refused when no
\* Conversation has the id.
saveAIMessage(conversationId, content) ==
    IF conversationId \notin 1..Len(conversations)
    THEN Thrown(MissingConversation)
    ELSE Returned(Len(messages) + 1, datetime_current,
                  << [id |-> Len(messages) + 1, content |-> content,
                      created_at |-> datetime_current, message_type |-> "ai"] >>)

\* The message store after a call that returned a Message.
messagesAfter(result, conversationId) ==
    IF result.error # "" THEN messages
    ELSE Append(messages,
                [conversation |-> conversationId,
                 content |-> result.items[1].content,
                 message_type |-> result.items[1].message_type,
                 created_at |-> result.created_at])

\* chatService's derive: jwt.verify in a try, and the claims must carry an id.
chatDerive(cookie, t) ==
    IF cookie.set /\ jwtVerify(cookie, t).set /\ jwtVerify(cookie, t).id # 0
    THEN [isLoggedIn |-> TRUE, user |-> jwtVerify(cookie, t)]
    ELSE [isLoggedIn |-> FALSE, user |-> NoToken]

\* The routes of chatController that run one query, and the calls of the
\* service the integration tests make without the controller.
QueryRoutes ==
    { "POST /conversations", "GET /conversations",
      "GET /conversation/:id", "GET /conversation/:id/messages" }
ServiceCalls ==
    { "createConversation", "getConversations", "getConversation",
      "addMessage", "saveAIMessage" }

\* The routes and calls that insert a row.
Inserting == { "POST /conversations", "createConversation", "addMessage", "saveAIMessage" }

\* The service's result for a route or a call.
serve(op, userId, conversationId, content) ==
    CASE op \in { "POST /conversations", "createConversation" } ->
           createConversation(userId)
      [] op \in { "GET /conversations", "getConversations" } ->
           getConversations(userId)
      [] op = "addMessage" -> addMessage(conversationId, userId, content)
      [] op = "saveAIMessage" -> saveAIMessage(conversationId, content)
      [] OTHER -> getConversation(conversationId, userId)

\* The handlers' catch: 404 for "Conversation not found" (where the handler
\* tests for it), 500 for any other Error.
statusOf(op, result) ==
    IF result.error = "" THEN 200
    ELSE IF result.error = "Conversation not found"
            /\ op \in { "GET /conversation/:id", "GET /conversation/:id/messages" }
         THEN 404
         ELSE 500

\* The answer recorded for a call that went through to the service.
answered(via, op, userId, conversationId, content) ==
    LET result == serve(op, userId, conversationId, content)
    IN  [via |-> via, op |-> op, user |-> userId, conversation |-> conversationId,
         content |-> content,
         status |-> IF via = "http" THEN statusOf(op, result) ELSE 0,
         message |-> result.error,
         id |-> IF op = "GET /conversation/:id/messages" THEN 0 ELSE result.id,
         created_at |->
             IF op = "GET /conversation/:id/messages" THEN 0 ELSE result.created_at,
         items |-> result.items]

\* The stores after a call that went through to the service.
stored(op, userId) ==
    IF op \in { "POST /conversations", "createConversation" }
    THEN conversationsAfter(userId)
    ELSE conversations

storedMessages(op, userId, conversationId, content) ==
    IF op \in { "addMessage", "saveAIMessage" }
    THEN messagesAfter(serve(op, userId, conversationId, content), conversationId)
    ELSE messages

\* A request to a one-query route of chatController.
ChatRequest(route, cookie, conversationId) ==
    /\ LET s == chatDerive(cookie, now)
       IN  IF unauthorized(s)
           THEN /\ chatResp' =
                     [NoChatResponse EXCEPT
                        !.via = "http", !.op = route,
                        !.conversation = conversationId,
                        !.status = 401, !.message = "Unauthorized"]
                /\ UNCHANGED conversations
           ELSE /\ chatResp' = answered("http", route, s.user.id, conversationId, << >>)
                /\ conversations' = stored(route, s.user.id)
    /\ UNCHANGED << now, storeVars, loginVars, auxVars, issued, appResp, messages, post >>

\* A call of the service with a user id, as the integration tests make it.
ServiceCall(op, userId, conversationId, content) ==
    /\ chatResp' = answered("service", op, userId, conversationId, content)
    /\ conversations' = stored(op, userId)
    /\ messages' = storedMessages(op, userId, conversationId, content)
    /\ UNCHANGED << now, storeVars, loginVars, auxVars, issued, appResp, post >>

\* The caller has read the answer.
ChatDone ==
    /\ chatResp # NoChatResponse
    /\ chatResp' = NoChatResponse
    /\ UNCHANGED << now, storeVars, loginVars, auxVars, issued, appResp,
                    conversations, messages, post >>

\* ------------------------------------------- POST /conversation/:id/messages

\* String.prototype.trim() on a text of letters and blanks.
RECURSIVE trimStart(_)
trimStart(text) ==
    IF text # << >> /\ Head(text) = " " THEN trimStart(Tail(text)) ELSE text

RECURSIVE trimEnd(_)
trimEnd(text) ==
    IF text # << >> /\ text[Len(text)] = " "
    THEN trimEnd(SubSeq(text, 1, Len(text) - 1))
    ELSE text

trim(text) == trimEnd(trimStart(text))

\* Mutant of chatHistory: the roles are exchanged.
RECURSIVE M_chatHistory_RolesExchanged(_)
M_chatHistory_RolesExchanged(items) ==
    IF items = << >> THEN << >>
    ELSE << [content |-> Head(items).content,
             role |-> IF Head(items).message_type = "user"
                      THEN "assistant" ELSE "user"] >>
         \o M_chatHistory_RolesExchanged(Tail(items))

\* conversation.messages.map(...): the turns of the history given to the model.
RECURSIVE chatHistory(_)
chatHistory(items) ==
    IF items = << >> THEN << >>
    ELSE << [content |-> Head(items).content,
             role |-> IF Head(items).message_type = "user"
                      THEN "user" ELSE "assistant"] >>
         \o chatHistory(Tail(items))

\* The Errors of the language model's client.
ModelError == "model call failed"
StreamError == "model stream failed"

\* The two controllers that serve the route: chatController and
\* chatgptController.
Controllers == { "chat", "chatgpt" }

\* set.status = statusCode in the catch: chatgptController has the
\* assignment, chatController does not.
statusSet(controller) == controller = "chatgpt"

\* if (e.message === "Conversation not found") statusCode = 404, else 500.
statusCode(message) == IF message = "Conversation not found" THEN 404 ELSE 500

\* Mutant of errorPayload: the Error is yielded whether or not a chunk was.
M_errorPayload_Always(streamStarted, message) ==
    [code |-> statusCode(message), message |-> message]

\* if (!streamStarted) yield JSON.stringify(error(statusCode, {message})):
\* what the catch adds to the body.
errorPayload(streamStarted, message) ==
    IF streamStarted THEN NoPayload
    ELSE [code |-> statusCode(message), message |-> message]

\* The handler's catch. The status line has gone out with the first chunk, so
\* set.status counts only before it.
Caught(h, message) ==
    post' = [post EXCEPT
               ![h].pc = "done",
               ![h].payload = errorPayload(post[h].streamStarted, message),
               ![h].status =
                   IF statusSet(post[h].controller) /\ ~post[h].streamStarted
                   THEN statusCode(message) ELSE @]

\* A request arrives at handler h: the isLoggedIn macro, then the handler's
\* first lines.
PostRequest(h, controller, cookie, conversationId, content) ==
    /\ post[h].pc = "idle"
    /\ LET s == chatDerive(cookie, now)
       IN  IF unauthorized(s)
           THEN post' = [post EXCEPT
                           ![h].pc = "done", ![h].controller = controller,
                           ![h].conversation = conversationId,
                           ![h].content = content, ![h].status = 401,
                           ![h].payload = [code |-> 401, message |-> "Unauthorized"]]
           ELSE post' = [post EXCEPT
                           ![h].pc = "addMessage", ![h].controller = controller,
                           ![h].user = s.user.id,
                           ![h].conversation = conversationId,
                           ![h].content = content, ![h].status = 200]
    /\ UNCHANGED << now, storeVars, loginVars, auxVars, issued, appResp,
                    conversations, messages, chatResp >>

\* addMessage: the select of the conversation the user owns.
AddMessageSelect(h) ==
    /\ post[h].pc = "addMessage"
    /\ IF selectConversation(post[h].conversation, post[h].user) = {}
       THEN Caught(h, "Conversation not found")
       ELSE post' = [post EXCEPT ![h].pc = "insertMessage"]
    /\ UNCHANGED << now, storeVars, loginVars, auxVars, issued, appResp,
                    conversations, messages, chatResp >>

\* Mutant of userMessageType: the message is stored as the model's.
M_userMessageType_Ai == "ai"

\* message_type: "user"
userMessageType == "user"

\* addMessage: the insert of the 'user' message.
AddMessageInsert(h) ==
    /\ post[h].pc = "insertMessage"
    /\ messages' =
          Append(messages,
                 [conversation |-> post[h].conversation, content |-> post[h].content,
                  message_type |-> userMessageType, created_at |-> datetime_current])
    /\ post' = [post EXCEPT ![h].pc = "getConversation",
                            ![h].userMessage = Len(messages) + 1]
    /\ UNCHANGED << now, storeVars, loginVars, auxVars, issued, appResp,
                    conversations, chatResp >>

\* generateAIResponseStream: getConversation and the history built from it.
ReadHistory(h) ==
    /\ post[h].pc = "getConversation"
    /\ LET conversation == getConversation(post[h].conversation, post[h].user)
       IN  IF conversation.error # ""
           THEN Caught(h, conversation.error)
           ELSE post' = [post EXCEPT
                           ![h].pc = "chat",
                           ![h].read = [i \in 1..Len(conversation.items) |->
                                           conversation.items[i].id],
                           ![h].history = chatHistory(conversation.items)]
    /\ UNCHANGED << now, storeVars, loginVars, auxVars, issued, appResp,
                    conversations, messages, chatResp >>

\* The input of the model: new ChatMemoryBuffer({chatHistory: history}) and
\* chatEngine.chat({message: userMessageContent, stream: true}).
chatInput(h) == [chatHistory |-> post[h].history, message |-> post[h].content]

\* chatEngine.chat({message, stream: true}) returns the stream, or fails.
ChatCall(h) ==
    /\ post[h].pc = "chat"
    /\ \/ post' = [post EXCEPT ![h].pc = "stream", ![h].called = TRUE]
       \/ /\ Caught(h, ModelError)
    /\ UNCHANGED << now, storeVars, loginVars, auxVars, issued, appResp,
                    conversations, messages, chatResp >>

\* The stream delivers a chunk: streamStarted = true; yield contentChunk.
StreamChunk(h, c) ==
    /\ post[h].pc = "stream"
    /\ post[h].chunks < MaxChunks
    /\ post' = [post EXCEPT
                  ![h].pc = "yield", ![h].streamStarted = TRUE,
                  ![h].chunk = c, ![h].chunks = @ + 1,
                  ![h].sent = @ \o c]
    /\ UNCHANGED << now, storeVars, loginVars, auxVars, issued, appResp,
                    conversations, messages, chatResp >>

\* The generator is resumed after the yield: fullAiResponse += contentChunk.
StreamResume(h) ==
    /\ post[h].pc = "yield"
    /\ post' = [post EXCEPT
                  ![h].pc = "stream", ![h].chunk = << >>,
                  ![h].fullAiResponse = @ \o post[h].chunk]
    /\ UNCHANGED << now, storeVars, loginVars, auxVars, issued, appResp,
                    conversations, messages, chatResp >>

\* Mutant of onReturn: the generator goes on with the loop.
M_onReturn_Resumes == "stream"

\* Where return() leaves a generator suspended at `yield contentChunk`: the
\* try has no finally, so the generator is done; the for await ends (and with
\* it the model's stream) and no line after it runs.
onReturn == "done"

\* The client disconnects: the generator is closed at the yield.
Disconnect(h) ==
    /\ post[h].pc = "yield"
    /\ post' = [post EXCEPT ![h].pc = onReturn, ![h].chunk = << >>, ![h].closed = TRUE]
    /\ UNCHANGED << now, storeVars, loginVars, auxVars, issued, appResp,
                    conversations, messages, chatResp >>

\* Mutant of worthSaving: the text is not trimmed before the test.
M_worthSaving_Untrimmed(fullAiResponse) == fullAiResponse # << >>

\* Mutant of worthSaving: every accumulated text is saved.
M_worthSaving_Always(fullAiResponse) == TRUE

\* if (fullAiResponse.trim()): the empty text is falsy.
worthSaving(fullAiResponse) == trim(fullAiResponse) # << >>

\* The stream ends: the reply is to be saved if it is worth saving.
StreamEnd(h) ==
    /\ post[h].pc = "stream"
    /\ post' = [post EXCEPT
                  ![h].pc = IF worthSaving(post[h].fullAiResponse)
                            THEN "saveAIMessage" ELSE "done",
                  ![h].ended = TRUE]
    /\ UNCHANGED << now, storeVars, loginVars, auxVars, issued, appResp,
                    conversations, messages, chatResp >>

\* The stream fails.
StreamFail(h) ==
    /\ post[h].pc = "stream"
    /\ Caught(h, StreamError)
    /\ UNCHANGED << now, storeVars, loginVars, auxVars, issued, appResp,
                    conversations, messages, chatResp >>

\* saveAIMessage(conversationId, fullAiResponse.trim())
SaveAIMessage(h) ==
    /\ post[h].pc = "saveAIMessage"
    /\ messages' =
          Append(messages,
                 [conversation |-> post[h].conversation,
                  content |-> trim(post[h].fullAiResponse),
                  message_type |-> "ai", created_at |-> datetime_current])
    /\ post' = [post EXCEPT ![h].pc = "done", ![h].aiMessage = Len(messages) + 1]
    /\ UNCHANGED << now, storeVars, loginVars, auxVars, issued, appResp,
                    conversations, chatResp >>

\* What the log keeps of a request that stored its message.
Logged(r) ==
    [conversation |-> r.conversation, content |-> r.content,
     userMessage |-> r.userMessage, aiMessage |-> r.aiMessage, ended |-> r.ended,
     blank |-> r.ended /\ trim(r.sent) = << >>]

\* The response of h has ended and the handler has returned.
PostDone(h) ==
    /\ post[h].pc = "done"
    /\ post' = [post EXCEPT ![h] = IdlePost]
    /\ log' = IF post[h].userMessage = 0 THEN log ELSE Append(log, Logged(post[h]))
    /\ UNCHANGED << now, storeVars, loginVars, codec, captured, robotVars, issued,
                    appResp,
                    conversations, messages, chatResp >>

\* The steps of request h after its arrival.
PostStep(h) ==
    \/ AddMessageSelect(h)
    \/ AddMessageInsert(h)
    \/ ReadHistory(h)
    \/ ChatCall(h)
    \/ \E c \in Chunks : StreamChunk(h, c)
    \/ StreamResume(h)
    \/ Disconnect(h)
    \/ StreamEnd(h)
    \/ StreamFail(h)
    \/ SaveAIMessage(h)

\* ------------------------------------------- buildMessage and parseMessage

\* The characters of the keys and of the values of the mappings, and the
\* pieces of the texts, that the codec is called with.
KeyChars == { "a", ":", LongS }
ValueChars == { "b", ":", " " }
Pieces == { << "K" >>, Separator, << "a" >>, << "b" >>, Newline }

\* The characters in the keys and values of the fields.
RECURSIVE fieldChars(_)
fieldChars(entries) ==
    IF entries = << >> THEN 0
    ELSE Len(Head(entries)[1]) + Len(Head(entries)[2]) + fieldChars(Tail(entries))

\* The caller's object gets one more property, after those it has.
CodecField(key, value) ==
    /\ codec.step \in { "none", "given" }
    /\ \A i \in 1..Len(codec.entries) : codec.entries[i][1] # key
    /\ codec' = [codec EXCEPT !.step = "given", !.source = "mapping",
                              !.entries = Append(@, << key, value >>)]
    /\ UNCHANGED << now, storeVars, loginVars, issued, appResp, chatVars, log,
                    captured, robotVars >>

\* buildMessage(data)
CodecBuild ==
    /\ codec.step \in { "none", "given" }
    /\ codec' = [codec EXCEPT !.step = "built", !.source = "mapping",
                              !.text = buildMessage(codec.entries)]
    /\ UNCHANGED << now, storeVars, loginVars, issued, appResp, chatVars, log,
                    captured, robotVars >>

\* A text arrives from a client.
CodecText(text) ==
    /\ codec.step = "none"
    /\ codec' = [codec EXCEPT !.step = "built", !.source = "text", !.text = text]
    /\ UNCHANGED << now, storeVars, loginVars, issued, appResp, chatVars, log,
                    captured, robotVars >>

\* parseMessage(message)
CodecParse ==
    /\ codec.step = "built"
    /\ codec' = [codec EXCEPT !.step = "parsed", !.data = parseMessage(codec.text)]
    /\ UNCHANGED << now, storeVars, loginVars, issued, appResp, chatVars, log,
                    captured, robotVars >>

\* ----------------------------------------------------------- specifications

\* One login request at a time, from clients that may deviate from the protocol.
Next ==
    \/ Tick
    \/ Cardinality(challenges) < MaxChallenges /\ getChallenge
    \/ \E r \in LoginRequests : LoginRequest(1, r)
    \/ LoginStep(1)
    \/ LoginDone(1)

Spec == Init /\ [][Next]_vars

\* Concurrent login requests of clients that follow the protocol, one for each
\* of the connections.
NextRace ==
    \/ Tick
    \/ Cardinality(challenges) < MaxChallenges /\ getChallenge
    \/ \E p \in Procs : \E r \in HonestRequests : LoginRequest(p, r)
    \/ \E p \in Procs : LoginStep(p)

SpecRace == Init /\ [][NextRace]_vars

\* Challenges, logins of clients that follow the protocol, one at a time, and
\* requests to the session routes of the app, over more than a session's life.
\* A request to a session route touches no store: it is answered, and its
\* answer read, before the next step of anything else.
NextApp ==
    \/ appResp = NoAppResponse /\ Tick
    \/ appResp = NoAppResponse /\ Sleep
    \/ /\ appResp = NoAppResponse
       /\ Cardinality(challenges) < MaxIssued /\ now <= MaxTime
       /\ getChallenge
    \/ appResp = NoAppResponse /\ \E r \in HonestRequests : LoginRequest(1, r)
    \/ appResp = NoAppResponse /\ LoginStep(1)
    \/ appResp = NoAppResponse /\ LoginDone(1)
    \/ /\ appResp = NoAppResponse
       /\ \E route \in Routes : \E cookie \in Cookies : AppRequest(route, cookie)
    \/ AppDone

SpecApp == Init /\ [][NextApp]_vars

\* Rows may still be inserted.
RowsLeft == Len(conversations) + Len(messages) < MaxRows

\* The conversation store, its service and the one-query routes of
\* chatController, with logins of clients that follow the protocol. A login
\* and a chat call share no store that both write, so a chat call is made
\* once a login has ended, when its cookie is there to be sent, and the next
\* login starts when the answer has been read. A challenge is never consumed,
\* so the first one issued serves every login.
NextChat ==
    \/ /\ chatResp = NoChatResponse /\ challenges = {}
       /\ getChallenge
    \/ /\ chatResp = NoChatResponse
       /\ \E r \in HonestRequests : LoginRequest(1, r)
    \/ LoginStep(1)
    \/ /\ chatResp = NoChatResponse
       /\ LoginDone(1)
    \/ /\ chatResp = NoChatResponse /\ pc[1] = "done"
       /\ \E route \in QueryRoutes : \E cookie \in Cookies :
             \E id \in 1..(Len(conversations) + 1) :
                /\ route \in Inserting => RowsLeft
                /\ ChatRequest(route, cookie, id)
    \/ /\ chatResp = NoChatResponse /\ pc[1] = "done"
       /\ \E op \in ServiceCalls : \E userId \in 1..(Len(users) + 1) :
             \E id \in 1..(Len(conversations) + 1) : \E content \in Contents :
                /\ op \in Inserting => RowsLeft
                /\ ServiceCall(op, userId, id, content)
    \/ ChatDone

SpecChat == Init /\ [][NextChat]_vars

\* The calls of the service that set a conversation up and read it back.
SetupCalls == { "createConversation", "getConversation" }

\* POST /conversation/:id/messages of either controller, with the logins and
\* the conversations it needs. The users sign in before the first
\* conversation is created and the last one stays signed in. One handler
\* takes the requests, so that they do not overlap, and the conversation is
\* read back between them.
NextPost ==
    \/ /\ challenges = {}
       /\ getChallenge
    \/ /\ conversations = << >>
       /\ \E r \in HonestRequests : LoginRequest(1, r)
    \/ LoginStep(1)
    \/ /\ conversations = << >> /\ Len(users) < Cardinality(Addresses)
       /\ LoginDone(1)
    \/ /\ chatResp = NoChatResponse /\ post["h1"].pc = "idle" /\ pc[1] = "done"
       /\ \E op \in SetupCalls : \E userId \in 1..Len(users) :
             \E id \in 1..Len(conversations) + 1 :
                /\ op \in Inserting => RowsLeft
                /\ ServiceCall(op, userId, id, << >>)
    \/ ChatDone
    \/ /\ chatResp = NoChatResponse /\ pc[1] = "done" /\ RowsLeft
       /\ \E controller \in Controllers : \E cookie \in Cookies :
             \E id \in 1..(Len(conversations) + 1) : \E content \in Contents :
                PostRequest("h1", controller, cookie, id, content)
    \/ PostStep("h1")
    \/ PostDone("h1")

SpecPost == Init /\ [][NextPost]_vars

\* Two requests to chatController's POST /conversation/:id/messages at a
\* time, their awaits interleaved, after the logins of one or two users and
\* the creation of their conversations. The requests arrive before the first
\* message is stored.
NextPostRace ==
    \/ /\ challenges = {} /\ getChallenge
    \/ /\ conversations = << >> /\ \E r \in HonestRequests : LoginRequest(1, r)
    \/ LoginStep(1)
    \/ /\ conversations = << >> /\ Len(users) < Cardinality(Addresses) /\ LoginDone(1)
    \/ /\ chatResp = NoChatResponse /\ pc[1] = "done" /\ messages = << >>
       /\ \A h \in Handlers : post[h].pc = "idle"
       /\ \E userId \in 1..Len(users) :
             /\ \A c \in 1..Len(conversations) : conversations[c].owner # userId
             /\ ServiceCall("createConversation", userId, 0, << >>)
    \/ ChatDone
    \/ /\ chatResp = NoChatResponse /\ pc[1] = "done" /\ messages = << >> /\ RowsLeft
       /\ \E h \in Handlers : \E cookie \in Cookies :
          \E id \in 1..(Len(conversations) + 1) : \E content \in Contents :
             PostRequest(h, "chat", cookie, id, content)
    \/ \E h \in Handlers : PostStep(h)
    \/ \E h \in Handlers : PostDone(h)

SpecPostRace == Init /\ [][NextPostRace]_vars

\* Calls of buildMessage and parseMessage with mappings and texts of every
\* shape within the bounds.
NextCodec ==
    \/ /\ codec.step \in { "none", "given" }
       /\ \E k \in 1..(MaxFieldChars - fieldChars(codec.entries)) :
          \E key \in [1..k -> KeyChars] :
          \E v \in 0..(MaxFieldChars - fieldChars(codec.entries) - k) :
          \E value \in [1..v -> ValueChars] :
             CodecField(key, value)
    \/ CodecBuild
    \/ /\ codec.step = "none"
       /\ \E n \in 0..MaxPieces : \E pieces \in [1..n -> Pieces] :
             CodecText(join(pieces, << >>))
    \/ CodecParse

SpecCodec == Init /\ [][NextCodec]_vars

\* Logins that answer an issued challenge with a message naming any instant
\* as its expiry; the first accepted request is kept and sent again, any
\* number of times, as the clock advances.
NextReplay ==
    \/ Tick
    \/ Cardinality(challenges) < MaxChallenges /\ getChallenge
    \/ /\ ~captured.set
       /\ \E c \in challenges : \E a \in Addresses : \E e \in Times :
             LoginRequest(1, MakeRequest(c.nonce, a, e, "none"))
    \/ LoginStep(1)
    \/ LoginDone(1)
    \/ Capture(1)
    \/ captured.set /\ LoginRequest(1, captured.req)

SpecReplay == Init /\ [][NextReplay]_vars

\* Logins, one at a time, that may fail several checks at once, until a
\* User is stored.
NextMany ==
    \/ Tick
    \/ challenges = {} /\ getChallenge
    \/ users = << >> /\ \E r \in ManyRequests : LoginRequest(1, r)
    \/ LoginStep(1)
    \/ LoginDone(1)

SpecMany == Init /\ [][NextMany]_vars

\* The same logins over a database whose queries may fail.
NextFaulty ==
    \/ Tick
    \/ challenges = {} /\ getChallenge
    \/ users = << >> /\ \E r \in ManyRequests : LoginRequest(1, r)
    \/ LoginStep(1)
    \/ StoreFails(1)
    \/ LoginDone(1)

SpecFaulty == Init /\ [][NextFaulty]_vars

\* --------------------------------------------------------------- properties

\* Login request p has run its checks.
Checked(p) == pc[p] \notin {"idle", "select", "check"}

\* verifyAndAuthenticate has accepted request p: it is about to return a user.
Accepted(p) == pc[p] \in {"find", "insert", "refetch", "sign"}

\* Request p was answered 200 with the accessToken cookie.
Granted(p) == pc[p] = "done" /\ resp[p].status = 200

\* Request p was answered 401 with this message and no cookie.
Refused(p, message) ==
    /\ pc[p] = "done"
    /\ resp[p] = [status |-> 401, message |-> message, cookie |-> NoToken]

\* The message of request p, as parseMessage decodes it.
Decoded(p) == parseMessage(req[p].message)

\* The decoded field is the text of an instant at or after (before) t.
NamesInstantFrom(v, t) == v.def /\ \E e \in Times : e >= t /\ v.val = toISOString(e)
NamesInstantBefore(v, t) == v.def /\ \E e \in Times : e < t /\ v.val = toISOString(e)

\* The decoded field is absent (or empty), or is not this text.
AbsentOrNot(v, text) == ~v.def \/ v.val = << >> \/ v.val # text

\* The lookup of p found a stored challenge that had not expired at the checks.
ChallengeLive(p) ==
    /\ chal[p].present
    /\ chal[p].expires_at >= tCheck[p]
    /\ [nonce |-> chal[p].nonce, expires_at |-> chal[p].expires_at] \in challenges
    /\ chal[p].nonce = req[p].nonce

\* The request is what a client following the protocol sends for the nonce.
Honest(p) ==
    \E e \in Times : req[p] = MakeRequest(req[p].nonce, req[p].address, e, "none")

\* Request p passed the checks of the challenge and of the nonce.
NonceChecked(p, m) ==
    Checked(p) /\ ChallengeLive(p) /\ Prop(m, nonceKey) = Defined(req[p].nonce)

\* Request p passed the checks of the challenge, the nonce and the address.
AddressChecked(p, m) ==
    NonceChecked(p, m) /\ Prop(m, addressKey) = Defined(req[p].address)

\* C1: a user is returned, and the accessToken cookie set, only if a stored,
\* unexpired challenge has the request's nonce, the decoded message carries
\* that nonce, that address and an expiry that has not passed, and the
\* signature is one of the address's keypair over the message.
C1_SessionOnlyIfVerified ==
    \A p \in Procs :
        (Accepted(p) \/ Granted(p) \/ resp[p].cookie.set) =>
            LET m == Decoded(p)
            IN  /\ ChallengeLive(p)
                /\ Prop(m, nonceKey) = Defined(req[p].nonce)
                /\ Prop(m, addressKey) = Defined(req[p].address)
                /\ Prop(m, expiresAtKey).def
                /\ ~NamesInstantBefore(Prop(m, expiresAtKey), tCheck[p])
                /\ req[p].signature = Sign(req[p].address, req[p].message)

C1_Witness ==
    \E p \in Procs : Granted(p) /\ resp[p].cookie.set /\ ChallengeLive(p)

\* C2: once a login naming a nonce has succeeded, no later login naming the
\* same nonce succeeds.
C2_ChallengeSingleUse ==
    \A p \in Procs :
        Granted(p) => ~(hist[p].outcome = "succeeded" /\ hist[p].nonce = req[p].nonce)

\* C3: once a login naming a nonce has been rejected, no later login naming
\* the same nonce succeeds.
C3_RejectedIsTerminal ==
    \A p \in Procs :
        Granted(p) => ~(hist[p].outcome = "rejected" /\ hist[p].nonce = req[p].nonce)

\* C4: a login whose challenge had expired when it was checked is answered 401
\* "Challenge expired", whatever its message and signature; none succeeds.
C4_ExpiredChallengeFails ==
    \A p \in Procs :
        (Checked(p) /\ chal[p].present /\ chal[p].expires_at < tCheck[p]) =>
            Refused(p, "Challenge expired")

C4_Witness ==
    \E p \in Procs :
        /\ Refused(p, "Challenge expired")
        /\ chal[p].present /\ chal[p].expires_at < tCheck[p]
        /\ req[p] = MakeRequest(req[p].nonce, req[p].address, MaxTime + ChallengeTtl, "none")

\* C5: a login whose nonce no stored challenge has is answered 401
\* "Challenge not found", whatever its address, message and signature.
C5_UnknownNonceNotFound ==
    \A p \in Procs :
        (Checked(p) /\ ~\E c \in challenges : c.nonce = req[p].nonce) =>
            Refused(p, "Challenge not found")

C5_Witness ==
    \E p \in Procs :
        /\ Refused(p, "Challenge not found")
        /\ ~\E c \in challenges : c.nonce = req[p].nonce
        /\ Honest(p)

\* C6: against a stored, unexpired challenge, a message whose decoded nonce is
\* absent or is not the request's nonce is answered 401 "Invalid nonce", also
\* when the signature over the message is valid.
C6_NonceMismatchFails ==
    \A p \in Procs :
        (Checked(p) /\ ChallengeLive(p)
            /\ AbsentOrNot(Prop(Decoded(p), nonceKey), req[p].nonce)) =>
            Refused(p, "Invalid nonce")

C6_Witness ==
    \E p \in Procs :
        /\ Refused(p, "Invalid nonce")
        /\ ChallengeLive(p)
        /\ Prop(Decoded(p), nonceKey) = Defined(OtherNonce(req[p].nonce))
        /\ req[p].signature = Sign(req[p].address, req[p].message)

\* C7: past the challenge and nonce checks, a message whose decoded address is
\* absent or is not the request's address is answered 401 "Invalid address";
\* a session is only ever issued for the address written in the signed message.
C7_AddressMismatchFails ==
    \A p \in Procs :
        /\ Checked(p) =>
              LET m == Decoded(p)
              IN  (NonceChecked(p, m)
                      /\ AbsentOrNot(Prop(m, addressKey), req[p].address)) =>
                      Refused(p, "Invalid address")
        /\ resp[p].cookie.set =>
              /\ Prop(Decoded(p), addressKey) = Defined(resp[p].cookie.wallet)
              /\ req[p].signature.msg = req[p].message

C7_Witness ==
    \E p \in Procs :
        /\ Refused(p, "Invalid address")
        /\ NonceChecked(p, Decoded(p))
        /\ Prop(Decoded(p), addressKey) = Defined(OtherAddress(req[p].address))

\* C8 as stated: a message whose decoded expiresAt is absent or is not
\* strictly later than the clock, the clock's own instant included, is
\* answered 401 "Challenge expired".
C8_ExpiryNotLaterFails ==
    \A p \in Procs :
        Checked(p) =>
            LET m == Decoded(p)
            IN  (AddressChecked(p, m)
                    /\ \/ Falsy(Prop(m, expiresAtKey))
                       \/ NamesInstantBefore(Prop(m, expiresAtKey), tCheck[p] + 1)) =>
                    Refused(p, "Challenge expired")

\* C8 as amended: a message whose decoded expiresAt is absent or is strictly
\* earlier than the clock is answered 401 "Challenge expired" though the
\* stored challenge has not expired; one that names the clock's own instant
\* passes the check.
C8_ExpiryEarlierFails ==
    \A p \in Procs :
        Checked(p) =>
            LET m == Decoded(p)
            IN  /\ (AddressChecked(p, m)
                      /\ \/ Falsy(Prop(m, expiresAtKey))
                         \/ NamesInstantBefore(Prop(m, expiresAtKey), tCheck[p])) =>
                      Refused(p, "Challenge expired")
                /\ (AddressChecked(p, m)
                      /\ Prop(m, expiresAtKey) = Defined(toISOString(tCheck[p]))) =>
                      ~Refused(p, "Challenge expired")

C8_Witness ==
    \E p \in Procs :
        /\ Refused(p, "Challenge expired")
        /\ AddressChecked(p, Decoded(p))
        /\ NamesInstantBefore(Prop(Decoded(p), expiresAtKey), tCheck[p])

\* C9: with well-formed encodings, a signature made over another message or
\* by another keypair makes the verifier answer false, and the login that
\* passed the earlier checks is answered 401 "Invalid signature".
C9_BadSignatureFails ==
    \A p \in Procs :
        (Checked(p) /\ pc[p] # "verify"
            /\ req[p].address \in Addresses /\ req[p].signature.wf
            /\ req[p].signature # Sign(req[p].address, req[p].message)) =>
            LET m == Decoded(p)
            IN  (AddressChecked(p, m)
                    /\ NamesInstantFrom(Prop(m, expiresAtKey), tCheck[p])) =>
                    Refused(p, "Invalid signature")

C9_Witness ==
    \E p \in Procs :
        /\ Refused(p, "Invalid signature")
        /\ req[p].signature = Sign(OtherAddress(req[p].address), req[p].message)

\* C10: the User store holds at most one User for a wallet address.
C10_OneUserPerWallet ==
    \A i, j \in 1..Len(users) : users[i] = users[j] => i = j

\* The ids of the users with this wallet when request p arrived.
KnownBefore(p) ==
    { id \in 1..Len(usersWas[p]) : usersWas[p][id] = req[p].address }

\* C11: logins that do not overlap keep one User for a wallet: the first
\* successful login from an address creates its User, every later one is
\* answered with that same User's id and creates none.
C11_IdempotentUpsert ==
    /\ \A i, j \in 1..Len(users) : users[i] = users[j] => i = j
    /\ \A p \in Procs :
          Granted(p) =>
              /\ Cardinality(findUser(req[p].address)) = 1
              /\ resp[p].cookie.id \in findUser(req[p].address)
              /\ resp[p].cookie.wallet = req[p].address
              /\ IF KnownBefore(p) = {}
                 THEN users = Append(usersWas[p], req[p].address)
                 ELSE users = usersWas[p] /\ resp[p].cookie.id \in KnownBefore(p)

C11_Witness ==
    \E p \in Procs :
        /\ Granted(p)
        /\ hist[p].outcome = "succeeded"
        /\ KnownBefore(p) # {}
        /\ users = << req[p].address >>

\* C15: a login that fails is answered 401 with a message and without the
\* accessToken cookie, and it has left the User store as it found it; no step
\* of a login changes the Challenge store.
C15_FailureLeavesStores ==
    /\ [](\A p \in Procs :
            (pc[p] = "done" /\ resp[p].status # 200) =>
                /\ resp[p].status = 401
                /\ resp[p].message # ""
                /\ resp[p].cookie = NoToken
                /\ users = usersWas[p])
    /\ [][(\E p \in Procs : pc'[p] # pc[p]) => challenges' = challenges]_vars

C15_Witness ==
    \E p \in Procs :
        /\ Refused(p, "Invalid signature")
        /\ users # << >>
        /\ findUser(req[p].address) = {}

\* What POST /login answers to request r, given the challenge the lookup
\* returned and the clock at the checks: the User store is no argument.
LoginResponse(r, challenge, t) ==
    LET failure == checkRequest(r, challenge, t)
        isValid == validateSignature(r.address, r.message, r.signature)
    IN  IF failure # "" THEN << 401, failure >>
        ELSE CASE isValid = "true" -> << 200, "Logged in successfully" >>
               [] isValid = "false" -> << 401, "Invalid signature" >>
               [] OTHER -> << 401, EncodingError >>

\* C16: the status and the message of the answer to a login are those the
\* request, the challenge and the clock determine, whether or not a User with
\* the request's address existed when the request arrived.
C16_ResponseHidesAccount ==
    \A p \in Procs :
        pc[p] = "done" =>
            << resp[p].status, resp[p].message >> =
                LoginResponse(req[p], chal[p], tCheck[p])

C16_Witness ==
    \E p \in Procs :
        /\ Granted(p)
        /\ KnownBefore(p) = {}
        /\ hist[p].outcome = "succeeded"

\* C12: a call of getChallenge adds one Challenge to the store; its nonce is
\* that of no Challenge issued before, its expiry is five minutes after the
\* call, and the response is that same pair.
C12_ChallengeIssued ==
    [][(challenges' # challenges \/ issued' # issued) =>
          /\ challenges \subseteq challenges'
          /\ Cardinality(challenges') = Cardinality(challenges) + 1
          /\ issued' \in challenges' \ challenges
          /\ \A c \in challenges : c.nonce # issued'.nonce
          /\ issued'.expires_at = now + ChallengeTtl]_vars

C12_Witness ==
    /\ Cardinality(challenges) = MaxIssued
    /\ issued \in challenges
    /\ issued.expires_at = now + ChallengeTtl
    /\ \E c \in challenges : c # issued /\ c.expires_at = issued.expires_at

\* The cookie is a token the server signed that has not expired at time t.
ValidSession(cookie, t) == cookie.set /\ cookie.key = "server" /\ t < cookie.exp

\* C13: the token a successful login sets carries the id and the wallet of
\* the User whose wallet is the login's address, and GET /me with a valid
\* token answers 200 with the id and the wallet of that token, which are
\* those of a stored User.
C13_MeReturnsSessionUser ==
    /\ \A p \in Procs :
          Granted(p) =>
              /\ resp[p].cookie.id \in findUser(req[p].address)
              /\ resp[p].cookie.wallet = req[p].address
    /\ (appResp.route = "GET /me" /\ ValidSession(appResp.cookie, appResp.time)) =>
          /\ appResp.status = 200
          /\ appResp.body.id = appResp.cookie.id
          /\ appResp.body.wallet = appResp.cookie.wallet
          /\ appResp.body.id \in 1..Len(users)
          /\ users[appResp.body.id] = appResp.body.wallet

C13_Witness ==
    /\ Granted(1)
    /\ appResp.route = "GET /me"
    /\ appResp.cookie = resp[1].cookie
    /\ appResp.status = 200
    /\ appResp.body.wallet = req[1].address
    /\ Len(users) = 2

\* C14: a request to an authenticated route that carries no session token,
\* or one that is invalid or expired, is answered 401 Unauthorized.
C14_UnauthorizedWithoutSession ==
    (appResp.route \in Routes /\ ~ValidSession(appResp.cookie, appResp.time)) =>
        appResp.status = 401 /\ appResp.message = "Unauthorized"

\* The answer in chatResp is that of a call that reached the service on
\* behalf of a user: a direct call, or a request the derive let through.
Served(ops) == chatResp.op \in ops /\ chatResp.user # 0

\* The conversation asked for exists and another user owns it.
OwnedByAnother ==
    /\ chatResp.conversation \in 1..Len(conversations)
    /\ conversations[chatResp.conversation].owner # chatResp.user

\* C17: a get of a conversation that another user owns fails with
\* "Conversation not found" (404 on the routes), carries none of the
\* conversation's data, and is the answer the same user gets for an id that
\* no conversation has.
C17_ConversationIsolation ==
    (/\ Served({ "getConversation", "GET /conversation/:id",
                 "GET /conversation/:id/messages" })
     /\ OwnedByAnother) =>
        /\ chatResp.message = "Conversation not found"
        /\ chatResp.via = "http" => chatResp.status = 404
        /\ chatResp.id = 0 /\ chatResp.created_at = 0 /\ chatResp.items = << >>
        /\ [chatResp EXCEPT !.conversation = 0] =
              [answered(chatResp.via, chatResp.op, chatResp.user,
                        Len(conversations) + 1, chatResp.content)
                 EXCEPT !.conversation = 0]

C17_Witness ==
    /\ chatResp.via = "http"
    /\ chatResp.op = "GET /conversation/:id"
    /\ chatResp.user \in 1..Len(users)
    /\ OwnedByAnother
    /\ messagesOf(chatResp.conversation) # {}
    /\ chatResp.status = 404

\* C18: a call of createConversation with the id of a stored User appends one
\* Conversation owned by that user and returns its id and creation time; with
\* an id no User has it fails and the store is left as it was; every stored
\* Conversation has a stored User as its owner.
C18_CreateConversation ==
    /\ [](\A c \in 1..Len(conversations) : conversations[c].owner \in 1..Len(users))
    /\ [][(/\ chatResp' # chatResp
           /\ chatResp'.op \in { "createConversation", "POST /conversations" }
           /\ chatResp'.user # 0) =>
             IF chatResp'.user \in 1..Len(users)
             THEN /\ Len(conversations') = Len(conversations) + 1
                  /\ SubSeq(conversations', 1, Len(conversations)) = conversations
                  /\ conversations'[Len(conversations')].owner = chatResp'.user
                  /\ chatResp'.message = ""
                  /\ chatResp'.id = Len(conversations')
                  /\ chatResp'.created_at =
                        conversations'[Len(conversations')].created_at
             ELSE /\ conversations' = conversations
                  /\ chatResp'.message # ""]_vars

C18_Witness ==
    /\ chatResp.op = "createConversation"
    /\ chatResp.user \notin 1..Len(users)
    /\ chatResp.message = MissingOwner
    /\ Len(conversations) = 2
    /\ conversations[1].owner # conversations[2].owner

\* The items of the answer are in this order of created_at, "<=" or ">=".
Ascending(items) ==
    \A i, j \in 1..Len(items) : i < j => items[i].created_at <= items[j].created_at
Descending(items) ==
    \A i, j \in 1..Len(items) : i < j => items[i].created_at >= items[j].created_at

\* The items of the answer are these rows of the store, each once.
ExactlyRows(items, ids) ==
    /\ { items[i].id : i \in 1..Len(items) } = ids
    /\ Len(items) = Cardinality(ids)

\* C19: getConversations answers with the conversations the user owns, all of
\* them and no other, each with its id and creation time, the newest first.
C19_ConversationsOfOwner ==
    Served({ "getConversations", "GET /conversations" }) =>
        /\ chatResp.message = ""
        /\ chatResp.via = "http" => chatResp.status = 200
        /\ ExactlyRows(chatResp.items,
                       { c \in 1..Len(conversations) :
                           conversations[c].owner = chatResp.user })
        /\ \A i \in 1..Len(chatResp.items) :
              chatResp.items[i].created_at =
                  conversations[chatResp.items[i].id].created_at
        /\ Descending(chatResp.items)

C19_Witness ==
    /\ chatResp.op = "getConversations"
    /\ Len(chatResp.items) = 2
    /\ chatResp.items[1].created_at > chatResp.items[2].created_at
    /\ \E c \in 1..Len(conversations) : conversations[c].owner # chatResp.user
    /\ messages # << >>

C21_AddMessage ==
    [][(chatResp' # chatResp /\ chatResp'.op = "addMessage") =>
          IF /\ chatResp'.conversation \in 1..Len(conversations)
             /\ conversations[chatResp'.conversation].owner = chatResp'.user
          THEN /\ Len(messages') = Len(messages) + 1
               /\ SubSeq(messages', 1, Len(messages)) = messages
               /\ messages'[Len(messages')].conversation = chatResp'.conversation
               /\ messages'[Len(messages')].content = chatResp'.content
               /\ messages'[Len(messages')].message_type = "user"
               /\ chatResp'.message = ""
               /\ chatResp'.items =
                     << [id |-> Len(messages'), content |-> chatResp'.content,
                         created_at |-> messages'[Len(messages')].created_at,
                         message_type |-> "user"] >>
          ELSE /\ chatResp'.message = "Conversation not found"
               /\ messages' = messages]_vars

C21_Witness ==
    /\ chatResp.op = "addMessage"
    /\ OwnedByAnother
    /\ chatResp.message = "Conversation not found"
    /\ \E m \in 1..Len(messages) :
          /\ messages[m].conversation = chatResp.conversation
          /\ messages[m].message_type = "user"

\* Request h has been answered after the model's stream ran to its end.
Completed(h) == post[h].pc = "done" /\ post[h].ended

\* The 'ai' messages stored after the 'user' message of request h.
RepliesOf(h) ==
    { m \in 1..Len(messages) :
        m > post[h].userMessage /\ messages[m].message_type = "ai" }

\* Request h has stored one 'ai' message: the trimmed text of the chunks sent
\* to the client, in the conversation of the request.
ReplySaved(h) ==
    /\ RepliesOf(h) = { post[h].aiMessage }
    /\ messages[post[h].aiMessage].conversation = post[h].conversation
    /\ messages[post[h].aiMessage].content = trim(post[h].sent)

\* C22 as stated: every request whose stream ran to its end has stored one
\* 'ai' message, the trimmed text of the chunks sent, also when that text is
\* empty or blank.
C22_EveryCompletedStreamSaved ==
    \A h \in Handlers : Completed(h) => ReplySaved(h)

\* C22 as amended: a request whose stream ran to its end has stored one 'ai'
\* message, the trimmed text of the chunks sent, when that text is not empty;
\* when the text sent is empty or blank it has stored none.
C22_CompletedStreamSaved ==
    \A h \in Handlers :
        Completed(h) =>
            IF trim(post[h].sent) # << >>
            THEN ReplySaved(h)
            ELSE post[h].aiMessage = 0 /\ RepliesOf(h) = {}

C22_Witness ==
    /\ Completed("h1")
    /\ post["h1"].aiMessage # 0
    /\ post["h1"].sent # trim(post["h1"].sent)
    /\ post["h1"].userMessage > 1

\* The requests that stored a message in conversation c, in the order they
\* were answered.
Turns(c) == SelectSeq(log, LAMBDA r : r.conversation = c)

\* getConversation has returned conversation c to its owner while no request
\* is under way.
ReadBack(c) ==
    /\ chatResp.via = "service" /\ chatResp.op = "getConversation"
    /\ chatResp.message = "" /\ chatResp.conversation = c
    /\ post["h1"].pc = "idle"

\* The messages returned are those of the requests, two for each: the user's
\* with the request's content, then the reply the request saved.
TwoPerTurn(c) ==
    LET turns == Turns(c)
        items == chatResp.items
    IN  /\ Len(items) = 2 * Len(turns)
        /\ \A i \in 1..Len(turns) :
              /\ items[2 * i - 1].id = turns[i].userMessage
              /\ items[2 * i - 1].message_type = "user"
              /\ items[2 * i - 1].content = turns[i].content
              /\ items[2 * i].id = turns[i].aiMessage
              /\ items[2 * i].message_type = "ai"

FailedBeforeChunk(h) ==
    /\ post[h].pc = "done" /\ post[h].user # 0
    /\ ~post[h].streamStarted /\ ~post[h].ended /\ ~post[h].closed

\* C24: a request that fails before any chunk was emitted is answered with an
\* error payload and the status 404 for "Conversation not found", 500 for any
\* other failure, and no 'ai' message is stored for it.
C24_FailureBeforeChunk ==
    \A h \in Handlers :
        FailedBeforeChunk(h) =>
            /\ post[h].payload # NoPayload
            /\ post[h].payload.code = statusCode(post[h].payload.message)
            /\ post[h].status = statusCode(post[h].payload.message)
            /\ post[h].aiMessage = 0

\* The handler of h has caught an Error of the stream after a chunk went out.
FailedAfterChunk(h) ==
    /\ post[h].pc = "done" /\ post[h].streamStarted
    /\ ~post[h].ended /\ ~post[h].closed

\* C25: when the stream fails after a chunk has been relayed, no 'ai' message
\* is stored for the request and no error payload is added to the body after
\* the chunks.
C25_FailureAfterChunk ==
    \A h \in Handlers :
        FailedAfterChunk(h) =>
            /\ post[h].aiMessage = 0
            /\ RepliesOf(h) = {}
            /\ post[h].payload = NoPayload

C25_Witness ==
    /\ FailedAfterChunk("h1")
    /\ post["h1"].controller = "chatgpt"
    /\ trim(post["h1"].sent) # << >>
    /\ post["h1"].fullAiResponse # << >>

\* C26: once the generator of a request has been closed at a yield, the
\* request takes no further chunk from the model's stream and stores no 'ai'
\* message.
C26_ClosedAtYield ==
    /\ [](\A h \in Handlers :
             post[h].closed => post[h].aiMessage = 0 /\ RepliesOf(h) = {})
    /\ [][\A h \in Handlers :
             post[h].closed /\ post'[h].closed =>
                 /\ post'[h].chunks = post[h].chunks
                 /\ post'[h].fullAiResponse = post[h].fullAiResponse]_vars

C26_Witness ==
    /\ post["h1"].closed
    /\ post["h1"].chunks = 1
    /\ trim(post["h1"].sent) # << >>
    /\ post["h1"].fullAiResponse = << >>

\* The handler of h has read the history for the model.
HistoryRead(h) ==
    post[h].called \/ post[h].pc \in { "chat", "stream", "yield", "saveAIMessage" }

\* C27: in one request the user message is in the store before the history
\* is read for the model, so the history read contains it; and the model is
\* called only after addMessage has stored the message.
C27_UserMessageBeforeHistory ==
    \A h \in Handlers :
        HistoryRead(h) =>
            /\ post[h].userMessage \in 1..Len(messages)
            /\ \E i \in 1..Len(post[h].read) :
                  /\ post[h].read[i] = post[h].userMessage
                  /\ post[h].history[i] =
                        [content |-> post[h].content, role |-> "user"]

C27_Witness ==
    /\ post["h1"].called
    /\ Len(post["h1"].read) = 3
    /\ post["h1"].read[3] = post["h1"].userMessage

\* The place of message m among the messages getConversation returns.
RECURSIVE placeIn(_, _)
placeIn(items, m) ==
    IF items = << >> THEN 0
    ELSE IF Head(items).id = m THEN 1
    ELSE LET rest == placeIn(Tail(items), m)
         IN  IF rest = 0 THEN 0 ELSE rest + 1

\* The request of h has stored its reply after its user message in the order
\* of the conversation.
ReplyAfterOwn(r) ==
    LET items == getConversation(r.conversation,
                                 conversations[r.conversation].owner).items
    IN  /\ placeIn(items, r.userMessage) > 0
        /\ placeIn(items, r.aiMessage) > placeIn(items, r.userMessage)
        /\ messages[r.userMessage].message_type = "user"
        /\ messages[r.aiMessage].message_type = "ai"

\* C28: however concurrent requests on one conversation interleave, the 'ai'
\* message a request stores comes later in the conversation's order than
\* the 'user' message that request stored.
C28_ReplyAfterOwnMessage ==
    /\ \A h \in Handlers : post[h].aiMessage # 0 => ReplyAfterOwn(post[h])
    /\ \A i \in 1..Len(log) : log[i].aiMessage # 0 => ReplyAfterOwn(log[i])

\* Two requests on one conversation overlap: the second stored its message
\* between the first's message and the first's reply, and replied as well.
C28_Witness ==
    /\ Len(log) = 1 /\ log[1].aiMessage # 0
    /\ post["h2"].aiMessage # 0
    /\ post["h2"].conversation = log[1].conversation
    /\ log[1].userMessage < post["h2"].userMessage
    /\ post["h2"].userMessage < log[1].aiMessage

\* The object whose Object.entries are the fields.
Mapping(entries) ==
    [key \in { entries[i][1] : i \in 1..Len(entries) } |->
        Defined(entries[CHOOSE i \in 1..Len(entries) : entries[i][1] = key][2])]

\* The lower-case letters of the alphabet, and those among them that the
\* lower case of their upper case gives back.
LowerCase == { LowerChars[i] : i \in 1..Len(LowerChars) } \cup { LongS }
Reversible == { c \in LowerCase : toLowerCase(toUpperCase(c)) = c }

\* Neither ': ' nor a newline occurs in the text.
Plain(text) == IndexOf(text, Separator, 1) = 0 /\ IndexOf(text, Newline, 1) = 0

\* A mapping has been built into a text and the text parsed; its keys and
\* values are plain and each key starts with one of the letters.
RoundTripOf(letters) ==
    /\ codec.step = "parsed" /\ codec.source = "mapping"
    /\ \A i \in 1..Len(codec.entries) :
          /\ codec.entries[i][1] # << >>
          /\ codec.entries[i][1][1] \in letters
          /\ Plain(codec.entries[i][1])
          /\ Plain(codec.entries[i][2])

\* What was parsed is the mapping, and the text has one 'Key: value' line
\* for each field, in the order of the fields.
RoundTrip ==
    /\ codec.data = Mapping(codec.entries)
    /\ IF codec.entries = << >> THEN codec.text = << >>
       ELSE split(codec.text, Newline) =
               [i \in 1..Len(codec.entries) |->
                   << toUpperCase(codec.entries[i][1][1]) >>
                       \o Tail(codec.entries[i][1]) \o << ":", " " >>
                       \o codec.entries[i][2]]

\* C29 as stated: the round trip holds for every mapping whose keys and
\* values have neither ': ' nor a newline and whose keys start with a
\* lower-case letter.
C29_RoundTripLowerCase == RoundTripOf(LowerCase) => RoundTrip

\* C29: for every mapping whose keys and values have neither ': ' nor a
\* newline and whose keys start with a lower-case letter that the lower case
\* of its upper case gives back, parseMessage(buildMessage(m)) is m, and
\* buildMessage gives one 'Key: value' line for each field in the mapping's
\* iteration order.
C29_RoundTripReversible == RoundTripOf(Reversible) => RoundTrip

C29_Witness ==
    /\ RoundTripOf(Reversible)
    /\ Len(codec.entries) = 2
    /\ \E i \in 1..2 :
          /\ codec.entries[i][1] = << "a", ":" >>
          /\ codec.entries[i][2] = << " " >>

\* A text of one line with a key before its first ': ' has been parsed.
OneLineParsed ==
    /\ codec.step = "parsed" /\ codec.source = "text"
    /\ IndexOf(codec.text, Newline, 1) = 0
    /\ IndexOf(codec.text, Separator, 1) > 1

\* C30: parseMessage splits a line at its first ': ' only: the key is the
\* text before it and the value all the text after it, so that 'K: a: b'
\* gives k the value 'a: b'.
C30_FirstSeparatorOnly ==
    OneLineParsed =>
        LET at == IndexOf(codec.text, Separator, 1)
        IN  codec.data =
               SetProp(EmptyObject,
                       lowerCamelCaseKey(SubSeq(codec.text, 1, at - 1)),
                       Defined(SubSeq(codec.text, at + Len(Separator),
                                      Len(codec.text))))

\* A text that arrived has been parsed.
TextParsed == codec.step = "parsed" /\ codec.source = "text"

\* The text before the first ': ' of a line: the whole line when it has none.
keyOf(line) ==
    LET at == IndexOf(line, Separator, 1)
    IN  IF at = 0 THEN line ELSE SubSeq(line, 1, at - 1)

\* The lines of a text that have a key: not empty and not starting with ': '.
keyed(text) == SelectSeq(split(text, Newline), LAMBDA line : keyOf(line) # << >>)

\* C31: parseMessage returns for every text; empty lines and lines without a
\* key give no entry, and the result is that of the text without them.
C31_LinesWithoutKeySkipped ==
    TextParsed =>
        /\ codec.data = parseMessage(join(keyed(codec.text), Newline))
        /\ \A key \in DOMAIN codec.data :
              /\ key # << >>
              /\ \E i \in 1..Len(keyed(codec.text)) :
                    lowerCamelCaseKey(keyOf(keyed(codec.text)[i])) = key
        /\ keyed(codec.text) = << >> => codec.data = EmptyObject

C31_Witness ==
    /\ TextParsed
    /\ LET lines == split(codec.text, Newline)
       IN  /\ Len(lines) = 3
           /\ lines[1] = << >>
           /\ lines[2] # << >> /\ keyOf(lines[2]) = << >>
           /\ keyOf(lines[3]) # << >>
    /\ codec.data # EmptyObject

\* Request p is the kept request and has been answered.
Resubmitted(p) ==
    pc[p] = "done" /\ captured.set /\ req[p] = captured.req

\* No step of a login changes the Challenge store.
ChallengesKept == (\E p \in Procs : pc'[p] # pc[p]) => challenges' = challenges

\* C32 as stated: no login changes the Challenge store, and a request that
\* was accepted once is accepted again whenever it is sent before the
\* challenge's expiry and answered 401 "Challenge expired" after it.
C32_ReplayUntilChallengeExpiry ==
    /\ [](\A p \in Procs :
            Resubmitted(p) =>
                IF chal[p].present /\ chal[p].expires_at >= tCheck[p]
                THEN Granted(p) ELSE Refused(p, "Challenge expired"))
    /\ [][ChallengesKept]_vars

\* C32: no login changes the Challenge store, and a request that was
\* accepted once is accepted again whenever it is sent before the challenge's
\* expiry and before the expiry its message names, and answered 401
\* "Challenge expired" after either.
C32_ReplayUntilExpiry ==
    /\ [](\A p \in Procs :
            Resubmitted(p) =>
                IF /\ chal[p].present /\ chal[p].expires_at >= tCheck[p]
                   /\ NamesInstantFrom(Prop(Decoded(p), expiresAtKey), tCheck[p])
                THEN Granted(p) ELSE Refused(p, "Challenge expired"))
    /\ [][ChallengesKept]_vars

C32_Witness ==
    \E p \in Procs :
        /\ Resubmitted(p) /\ Granted(p)
        /\ tCheck[p] > captured.at
        /\ hist[p] = [nonce |-> req[p].nonce, outcome |-> "succeeded"]

\* The checks request p fails, in the order of the protocol: no challenge
\* has its nonce; the challenge has expired; the message does not carry the
\* nonce; nor the address; the expiry it names is absent or has passed; the
\* signature is not the address's over the message.
Failing(p) ==
    LET m == Decoded(p)
    IN  << ~chal[p].present,
           chal[p].present /\ chal[p].expires_at < tCheck[p],
           AbsentOrNot(Prop(m, nonceKey), req[p].nonce),
           AbsentOrNot(Prop(m, addressKey), req[p].address),
           \/ Falsy(Prop(m, expiresAtKey))
           \/ NamesInstantBefore(Prop(m, expiresAtKey), tCheck[p]),
           \/ req[p].address \notin Addresses
           \/ req[p].signature # Sign(req[p].address, req[p].message) >>

\* The message each check fails with; the last one fails with the decoder's
\* when an encoding is malformed.
FailureOf(p, k) ==
    CASE k = 1 -> "Challenge not found"
      [] k = 2 -> "Challenge expired"
      [] k = 3 -> "Invalid nonce"
      [] k = 4 -> "Invalid address"
      [] k = 5 -> "Challenge expired"
      [] OTHER -> IF req[p].address \in Addresses /\ req[p].signature.wf
                  THEN "Invalid signature" ELSE EncodingError

\* C33: a login that fails several checks is answered with the error of the
\* first it fails, in the order: challenge not found, challenge expired,
\* invalid nonce, invalid address, message expired, invalid signature; the
\* signature is verified only after the five checks before it passed and the
\* User store changes only after all six did.
C33_FirstFailureReported ==
    \A p \in Procs :
        Checked(p) =>
            LET failing == Failing(p)
                fails == { k \in 1..6 : failing[k] }
            IN  /\ (pc[p] = "done" /\ fails # {}) =>
                      Refused(p, FailureOf(p, CHOOSE k \in fails :
                                                 \A j \in fails : k <= j))
                /\ pc[p] = "verify" => fails \cap 1..5 = {}
                /\ (pc[p] \in { "find", "insert", "refetch", "sign" }
                       \/ users # usersWas[p]) => fails = {}

C33_Witness ==
    \E p \in Procs :
        /\ Refused(p, "Invalid nonce")
        /\ { k \in 1..6 : Failing(p)[k] } = { 3, 4, 5, 6 }

\* C34: every login ends either 200 with the accessToken cookie set or 401
\* with a message and no cookie, also when verifyAndAuthenticate throws on a
\* malformed encoding or on a failing query: never 500.
C34_TwoOutcomes ==
    \A p \in Procs :
        pc[p] = "done" =>
            \/ /\ resp[p].status = 200
               /\ resp[p].cookie.set
               /\ validateSignature(req[p].address, req[p].message,
                                    req[p].signature) = "true"
            \/ /\ resp[p].status = 401
               /\ resp[p].message # ""
               /\ resp[p].cookie = NoToken

C34_Witness ==
    \E p \in Procs :
        /\ Refused(p, EncodingError)
        /\ req[p].address = MalformedAddress
        /\ req[p].signature.wf
        /\ last = [nonce |-> req[p].nonce, outcome |-> "rejected"]
        /\ hist[p].outcome = "rejected"

\* Requests f and g on one conversation overlap: g stored its user message
\* after f's and before f stored its reply, and g has replied as well.
Overlapping(f, g) ==
    /\ f # g
    /\ post[f].conversation = post[g].conversation
    /\ post[f].userMessage # 0 /\ post[g].aiMessage # 0
    /\ post[f].userMessage < post[g].userMessage
    /\ post[g].userMessage < post[f].aiMessage

\* The conversation of f as getConversation returns it to its owner.
ConversationOf(f) ==
    getConversation(post[f].conversation,
                    conversations[post[f].conversation].owner).items

\* C35: when two requests on one conversation overlap, the conversation does
\* not alternate: the two user messages are next to each other in its order
\* and both come before both replies; and a history that the second request
\* read before any reply was stored holds the first request's user message
\* followed by its own, two 'user' turns and no 'assistant' turn.
C35_OverlapBreaksAlternation ==
    \A f, g \in Handlers :
        Overlapping(f, g) =>
            LET items == ConversationOf(f)
                at == placeIn(items, post[f].userMessage)
            IN  /\ at > 0 /\ at + 3 <= Len(items)
                /\ items[at + 1].id = post[g].userMessage
                /\ items[at].message_type = "user"
                /\ items[at + 1].message_type = "user"
                /\ { items[at + 2].id, items[at + 3].id } =
                      { post[f].aiMessage, post[g].aiMessage }
                /\ items[at + 2].message_type = "ai"
                /\ items[at + 3].message_type = "ai"
                /\ Len(post[g].read) = at + 1 =>
                      /\ post[g].read[at] = post[f].userMessage
                      /\ post[g].read[at + 1] = post[g].userMessage
                      /\ post[g].history[at].role = "user"
                      /\ post[g].history[at + 1].role = "user"

C35_Witness ==
    /\ Overlapping("h1", "h2")
    /\ post["h1"].pc = "done" /\ post["h2"].pc = "done"
    /\ post["h2"].read = << post["h1"].userMessage, post["h2"].userMessage >>
    /\ post["h1"].aiMessage > post["h2"].userMessage
    /\ post["h2"].aiMessage > post["h1"].aiMessage
    /\ post["h2"].history =
          << [content |-> post["h1"].content, role |-> "user"],
             [content |-> post["h2"].content, role |-> "user"] >>

\* The owner of the conversation message m was added to.
OwnerOf(m) == conversations[messages[m].conversation].owner

\* C36: a request authenticated as one user adds no message, 'user' or 'ai',
\* to a conversation of another user, however requests interleave: the
\* handler comes to saveAIMessage only after addMessage and getConversation
\* found the conversation to be the requesting user's.
C36_NoMessageToAnothersConversation ==
    \A h \in Handlers :
        /\ post[h].userMessage # 0 => OwnerOf(post[h].userMessage) = post[h].user
        /\ post[h].aiMessage # 0 => OwnerOf(post[h].aiMessage) = post[h].user
        /\ post[h].pc = "saveAIMessage" =>
              /\ post[h].userMessage # 0 /\ post[h].read # << >>
              /\ post[h].conversation \in 1..Len(conversations)
              /\ conversations[post[h].conversation].owner = post[h].user

\* A request of one user for the conversation of another has been refused
\* while a request of that user for their own conversation stored its reply.
C36_Witness ==
    /\ post["h1"].pc = "done" /\ post["h1"].user # 0
    /\ post["h1"].conversation \in 1..Len(conversations)
    /\ conversations[post["h1"].conversation].owner # post["h1"].user
    /\ post["h1"].payload.message = "Conversation not found"
    /\ post["h2"].user = post["h1"].user
    /\ post["h2"].aiMessage # 0
    /\ Len(messages) = 2

\* The request of h stored its user message and then failed at the model's
\* call or stream, or its stream ended with nothing but blanks.
FailedAfterStoring(h) ==
    /\ post[h].pc = "done" /\ post[h].userMessage # 0
    /\ \/ ~post[h].ended /\ ~post[h].closed
       \/ post[h].ended /\ trim(post[h].sent) = << >>

\* C37: a request that stored its user message and then failed, or got only
\* blanks from the model, leaves that one 'user' message in the conversation
\* and no 'ai' message: the message is not taken back.
C37_UserMessageKept ==
    \A h \in Handlers :
        FailedAfterStoring(h) =>
            /\ post[h].userMessage = Len(messages)
            /\ messages[post[h].userMessage].message_type = "user"
            /\ messages[post[h].userMessage].content = post[h].content
            /\ messages[post[h].userMessage].conversation = post[h].conversation
            /\ post[h].aiMessage = 0
            /\ RepliesOf(h) = {}
            /\ LET items == ConversationOf(h)
               IN  items[Len(items)].message_type = "user"

C37_Witness ==
    /\ FailedAfterStoring("h1")
    /\ post["h1"].ended
    /\ post["h1"].sent # << >>
    /\ post["h1"].userMessage = 3

\* C38: in the input of the model the new user message appears once: the
\* history holds the turns that preceded it, with their roles and in the
\* order of creation, and the message itself is passed beside the history.
C38_NewMessageOnce ==
    \A h \in Handlers :
        post[h].called =>
            /\ chatInput(h).message = messages[post[h].userMessage].content
            /\ \A i \in 1..Len(post[h].read) : post[h].read[i] # post[h].userMessage
            /\ chatInput(h).chatHistory =
                  chatHistory(SelectSeq(ConversationOf(h),
                                        LAMBDA row : row.id < post[h].userMessage))

\* Every stored message is a 'user' or an 'ai' message of a conversation
\* that exists.
MessagesWellFormed ==
    \A m \in 1..Len(messages) :
        /\ messages[m].message_type \in { "user", "ai" }
        /\ messages[m].conversation \in 1..Len(conversations)

\* A step keeps every stored message as it is and adds one at most: a 'user'
\* message when addMessage was called, an 'ai' message when saveAIMessage was.
MessagesOnlyAdded ==
    /\ Len(messages') \in { Len(messages), Len(messages) + 1 }
    /\ \A m \in 1..Len(messages) : messages'[m] = messages[m]
    /\ Len(messages') > Len(messages) =>
          \/ /\ chatResp'.op = "addMessage"
             /\ messages'[Len(messages')].message_type = "user"
          \/ /\ chatResp'.op = "saveAIMessage"
             /\ messages'[Len(messages')].message_type = "ai"

\* C39: every stored message has a type in {user, ai} and belongs to one
\* conversation that exists; addMessage creates 'user' messages only,
\* saveAIMessage 'ai' messages only, and no operation changes or removes a
\* message once it is stored.
C39_MessagesTypedLinkedImmutable ==
    []MessagesWellFormed /\ [][MessagesOnlyAdded]_vars

C39_Witness ==
    /\ chatResp.op = "saveAIMessage" /\ chatResp.message = ""
    /\ Len(messages) = 2
    /\ messages[1].message_type = "user"
    /\ messages[2].message_type = "ai"
    /\ messages[2].conversation = messages[1].conversation

\* ------------------------------------------ the simulated robots: the steps

\* The commands sent to the robots: the four the switch knows and another.
SentCommands == KnownCommands \cup { "dance" }

\* The ids commands are sent to: the robots and an id no robot has.
SentIds == RobotIds \cup { "robot-0" }

\* The commands handleSimulatedCommand has taken, over all robots.
RECURSIVE takenBy(_)
takenBy(robots) ==
    IF robots = {} THEN 0
    ELSE LET r == CHOOSE one \in robots : TRUE
         IN  Len(simulatedRobotConnections[r].commands) + Len(handled[r].errors)
                + takenBy(robots \ { r })

CommandsTaken == takenBy(RobotIds)

\* handleSimulatedCommand: the switch, then setTimeout and, for an executing
\* robot, setInterval; sendError(responseMessage, 400) and return on default.
handleSimulatedCommand(r, command) ==
    IF command \notin KnownCommands
    THEN /\ handled' = [handled EXCEPT
                          ![r].errors = Append(@, [code |-> 400,
                                                   message |-> responseMessage(command)])]
         /\ UNCHANGED simulatedRobotConnections
    ELSE LET connection == simulatedRobotConnections[r]
             status == executed(connection.status, command)
         IN  /\ simulatedRobotConnections' =
                   [simulatedRobotConnections EXCEPT
                      ![r] = [status |-> status,
                              timeouts |-> Append(connection.timeouts,
                                                  [responseStatus |-> "success",
                                                   responseMessage |->
                                                       responseMessage(command)]),
                              intervals |-> IF status.status = "executing"
                                            THEN connection.intervals + 1
                                            ELSE connection.intervals,
                              commands |-> Append(connection.commands, command)]]
             /\ UNCHANGED handled

\* RoboticsServiceImpl.sendCommandToRobot
sendCommandToRobot(robotId, command) ==
    /\ IF robotId \in RobotIds
       THEN /\ handleSimulatedCommand(robotId, command)
            /\ commandResult' = [status |-> "success", robotId |-> robotId,
                                 command |-> command]
       ELSE /\ commandResult' = [status |-> "error", robotId |-> robotId,
                                 command |-> ""]
            /\ UNCHANGED << simulatedRobotConnections, handled >>
    /\ UNCHANGED << now, storeVars, loginVars, issued, appResp, chatVars,
                    log, codec, captured >>

\* The timeout set first comes due: the robot completes, emitStatusUpdate,
\* sendSimulatedCommandResponse(responseStatus, responseMessage).
Timeout(r) ==
    /\ simulatedRobotConnections[r].timeouts # << >>
    /\ LET connection == simulatedRobotConnections[r]
           due == Head(connection.timeouts)
       IN  /\ simulatedRobotConnections' =
                 [simulatedRobotConnections EXCEPT
                    ![r].status = completed(connection.status),
                    ![r].timeouts = Tail(connection.timeouts)]
           /\ handled' = [handled EXCEPT
                            ![r].responses = Append(@, [status |-> due.responseStatus,
                                                        message |-> due.responseMessage])]
    /\ UNCHANGED << now, storeVars, loginVars, issued, appResp, chatVars,
                    log, codec, captured, commandResult >>

\* An interval of handleSimulatedCommand comes due: it is cleared when the
\* robot is not executing, and emits the status, a metric and sensor data
\* otherwise.
UpdateInterval(r) ==
    /\ simulatedRobotConnections[r].intervals > 0
    /\ simulatedRobotConnections' =
          [simulatedRobotConnections EXCEPT
             ![r].intervals =
                 IF simulatedRobotConnections[r].status.status # "executing"
                 THEN @ - 1 ELSE @]
    /\ UNCHANGED << now, storeVars, loginVars, issued, appResp, chatVars,
                    log, codec, captured, handled, commandResult >>

\* The level after Math.min(100, level + Math.random() * 1).
charged(level) == { level, IF level < BatteryFull THEN level + 1 ELSE level }

\* The level after Math.max(0, level - Math.random() * 0.1).
discharged(level) == { level, IF level > BatteryLow THEN level - 1 ELSE level }

\* The interval of simulateBattery comes due.
simulateBattery(r) ==
    /\ LET status == simulatedRobotConnections[r].status
       IN  IF status.isCharging
           THEN \E level \in charged(status.batteryLevel) :
                   simulatedRobotConnections' =
                      [simulatedRobotConnections EXCEPT
                         ![r].status.batteryLevel = level,
                         ![r].status.isCharging = level < BatteryFull]
           ELSE \E level \in discharged(status.batteryLevel) :
                   simulatedRobotConnections' =
                      [simulatedRobotConnections EXCEPT
                         ![r].status =
                            IF level <= BatteryLow
                            THEN [status EXCEPT !.batteryLevel = level,
                                                !.isCharging = TRUE,
                                                !.status = "idle",
                                                !.task = "Returning to Charge"]
                            ELSE [status EXCEPT !.batteryLevel = level]]
    /\ UNCHANGED << now, storeVars, loginVars, issued, appResp, chatVars,
                    log, codec, captured, handled, commandResult >>

\* The robots: commands sent to them, their timers and their batteries.
NextRobotics ==
    \/ /\ CommandsTaken < MaxCommands
       /\ \E robotId \in SentIds : \E command \in SentCommands :
             sendCommandToRobot(robotId, command)
    \/ \E r \in RobotIds : Timeout(r)
    \/ \E r \in RobotIds : UpdateInterval(r)
    \/ \E r \in RobotIds : simulateBattery(r)

\* A timeout that was set comes due.
FairRobotics == \A r \in RobotIds : WF_vars(Timeout(r))

SpecRobotics == Init /\ [][NextRobotics]_vars /\ FairRobotics

ResponsesFollow ==
    \A r \in RobotIds :
        /\ Len(handled[r].responses) + Len(simulatedRobotConnections[r].timeouts)
              = Len(simulatedRobotConnections[r].commands)
        /\ \A k \in 1..Len(handled[r].responses) :
              /\ handled[r].responses[k].status = "success"
              /\ handled[r].responses[k].message =
                    responseMessage(simulatedRobotConnections[r].commands[k])

\* A step that handles an error of robot r is the step of an unknown command:
\* code 400, no response, no timeout, status and task as they were.
UnknownCommandRefused ==
    \A r \in RobotIds :
        /\ handled'[r].errors # handled[r].errors =>
              /\ commandResult'.command \notin KnownCommands
              /\ handled'[r].errors =
                    Append(handled[r].errors,
                           [code |-> 400, message |-> "Unknown command"])
              /\ handled'[r].responses = handled[r].responses
              /\ simulatedRobotConnections'[r] = simulatedRobotConnections[r]

Executing(r) == simulatedRobotConnections[r].status.status = "executing"

IdleWith(r, tasks) ==
    /\ simulatedRobotConnections[r].status.status = "idle"
    /\ simulatedRobotConnections[r].status.task \in tasks

EveryCommandAnswered ==
    \A r \in RobotIds : \A k \in 1..MaxCommands :
        Len(simulatedRobotConnections[r].commands) >= k
            ~> Len(handled[r].responses) >= k

\* C40 as stated: every command a robot accepts is followed by one
\* command_response with status 'success'; an executing robot returns to
\* 'idle' with task null, also when commands overlap; an unknown command gets
\* an error of code 400, no command_response, and leaves status and task.
C40_AnsweredAndIdleNoTask ==
    /\ []ResponsesFollow
    /\ [][UnknownCommandRefused]_vars
    /\ EveryCommandAnswered
    /\ \A r \in RobotIds : Executing(r) ~> IdleWith(r, { null })

\* C40, amended: the same, where the executing robot returns to 'idle' with
\* task null or, when its battery ran low in between, 'Returning to Charge'.
C40_AnsweredAndIdle ==
    /\ []ResponsesFollow
    /\ [][UnknownCommandRefused]_vars
    /\ EveryCommandAnswered
    /\ \A r \in RobotIds : Executing(r) ~> IdleWith(r, { null, "Returning to Charge" })

\* The second command came before the timeout of the first, which has since
\* completed the robot.
C40_Witness ==
    LET connection == simulatedRobotConnections["robot-1"]
    IN  /\ connection.commands = << "move_forward", "turn_left" >>
        /\ Len(connection.timeouts) = 1
        /\ Len(handled["robot-1"].responses) = 1
        /\ connection.status.status = "idle"
        /\ connection.status.task = null
        /\ connection.status.x = 1 /\ connection.status.z = 1

====
